---- MODULE Spec2Model ----
(***************************************************************************)
(* Verification model of the outdoor-ai repository (pool / backyard 3D     *)
(* designer).  The state machines of this module:                          *)
(*   Spec          the BackyardAI page of src/pages/index.js (session)     *)
(*   SpecLive      Spec with the event loop running the timers             *)
(*   SpecElements  the design step of the session on its own               *)
(*   SpecPool      the EnhancedPool component, in its three copies         *)
(*   SpecHeap      the session state at the level of JavaScript object     *)
(*                 identity (which records an edit builds or shares)       *)
(*   SpecMemo      the useMemo cell of EnhancedPool                        *)
(*   SpecPage      the page of src/app/page.tsx with its cost estimate     *)
(*   SpecAuto      the address autocomplete of PhotoUpload                 *)
(*   SpecApi       the API route src/pages/api/places-autocomplete.js      *)
(* Lengths are integers in feet; every derived geometric quantity is an    *)
(* integer number of hundredths of a foot, so  length * 0.6  is 60*length  *)
(* and  size - 0.8  is 100*size - 80.  Roughness and metalness are tenths. *)
(***************************************************************************)
EXTENDS Integers, Sequences, FiniteSets, TLC

\* ------------------------------------------------------------------------
\* Bounds of the model
\* ------------------------------------------------------------------------
MaxElements == 2     \* hardscape + landscape elements placed in one session
MaxCoord == 1        \* element coordinates range over 0..MaxCoord
MaxPhotos == 1       \* photos uploaded at once
MaxDim == 2          \* pool size components range over 6*(1..MaxDim) feet
MaxHeap == 17        \* objects allocated in SpecHeap
MaxInputs == 3       \* keystrokes and selections in the address field
MaxPredictions == 6  \* predictions in one upstream reply

VARIABLES
  \* --- BackyardAI, src/pages/index.js:2256-2278
  step, photos, address, progress, currentStage, aiResults,
  hardscapeElements, landscapeElements, timeOfDay, isProcessingPhotos,
  designData,
  pc,        \* position of the running handleProcessPhotos: 0 = not running,
             \* k in 1..10 = sleeping in stage k, 11 = awaiting aiPromise
  lastOp,    \* name of the handler that made the last state change
  \* --- EnhancedPool component
  source,    \* which copy of the component is mounted
  props, hovered, isDragging, rendered,
  \* --- object-level session state
  heap, designDataRef, hardscapeRef, landscapeRef, heapOp,
  \* --- the useMemo cell of EnhancedPool (src/components/EnhancedPool.js)
  memoProps,     \* props of the last render, size resolved to an array object
  poolGeometry,  \* the memoised geometry: its dependencies, value, identity
  allocated,     \* objects (arrays, geometries) created so far
  memoOp,        \* what the parent changed in the last render
  \* --- the page of src/app/page.tsx with its DesignControls
  pagePool,      \* designData.pool
  pageEstimate,  \* the text shown after "Estimated Cost: $"
  \* --- address autocomplete of PhotoUpload (src/pages/index.js:937-1092)
  addressSuggestions, showSuggestions,
  pending,       \* autocomplete requests sent and not yet answered
  inputSeq,      \* number of inputs (keystrokes, selections) made so far;
                 \* a request carries the number of the input that sent it
  autoOp,        \* the last handler of the autocomplete and what it handled
  \* --- one invocation of the API route places-autocomplete.js
  req, apiKey, res,
  apiPc,         \* "idle", "fetch" (awaiting fetch), "json" (awaiting
                 \* response.json()), "done"
  upstream,      \* what the fetch of the Google service settled with
  upstreamCalls  \* calls of the Google service made by this invocation

sessionVars == <<step, photos, address, progress, currentStage, aiResults,
                 hardscapeElements, landscapeElements, timeOfDay,
                 isProcessingPhotos, designData, pc, lastOp>>
poolVars == <<source, props, hovered, isDragging, rendered>>
heapVars == <<heap, designDataRef, hardscapeRef, landscapeRef, heapOp>>
memoVars == <<memoProps, poolGeometry, allocated, memoOp>>
pageVars == <<pagePool, pageEstimate>>
autoVars == <<addressSuggestions, showSuggestions, pending, inputSeq, autoOp>>
apiVars == <<req, apiKey, res, apiPc, upstream, upstreamCalls>>
vars == <<sessionVars, poolVars, heapVars, memoVars, pageVars, autoVars, apiVars>>

\* ------------------------------------------------------------------------
\* BackyardAI session (src/pages/index.js)
\* ------------------------------------------------------------------------
Null == [null |-> TRUE]

InitialDesignData ==
  [pool |-> [position |-> <<0, 0, 0>>, size |-> <<24, 12, 6>>,
             shape |-> "rectangle", color |-> "#0066cc", finish |-> "plaster"],
   backyard |-> [dimensions |-> [length |-> 50, width |-> 35]]]

\* the script with its third and fourth stage exchanged
stages_exchanged == <<5, 12, 40, 25, 55, 65, 75, 85, 95, 100>>

\* stages of handleProcessPhotos: the progress value of each
stages == <<5, 12, 25, 40, 55, 65, 75, 85, 95, 100>>

\* defaults whose dimensions carry only the confidence
getContractorDefaults_noDimensions ==
  [dimensions |-> [confidence |-> 88], fallback |-> TRUE]

\* ContractorAI.getContractorDefaults: the dimensions of the fallback result
getContractorDefaults ==
  [dimensions |-> [length |-> 50, width |-> 35], fallback |-> TRUE]

\* ContractorAI.analyzePhotosWithAddress: getPropertyData and
\* measureWithPrecision resolve, then this.detectAllFeatures is not a method
\* of the class, the call throws and the catch returns the defaults.
analyzePhotosWithAddress == getContractorDefaults

\* inputs of the handlers
Addresses == {"", "  ", "12 Oak St"}
trim(a) == IF a = "  " THEN "" ELSE a
TimeKeys ==
  {"sunrise", "morning", "noon", "afternoon", "sunset", "evening", "night"}
TimeInputs == {"sunset", "noon", "night"}
HardscapeTypes == {"firepit"}
LandscapeTypes == {"tree"}
Categories == {"hardscape", "landscape", "deck"}
Positions == {<<x, 0, 0>> : x \in 0..MaxCoord}
\* (property, value) pairs handed to handleDesignUpdate: the sliders of
\* ContractorControls give lengths in 20..50 and widths in 12..30, the
\* buttons give finishes; the handler itself accepts any value.
DesignInputs ==
  {<<"length", 20>>, <<"length", 0>>, <<"width", -5>>,
   <<"finish", "pebble">>, <<"shape", "lagoon">>}

SessionInit ==
  /\ step = "upload"
  /\ photos = 0
  /\ address = ""
  /\ progress = 0
  /\ currentStage = 0
  /\ aiResults = Null
  /\ hardscapeElements = <<>>
  /\ landscapeElements = <<>>
  /\ timeOfDay = "sunset"
  /\ isProcessingPhotos = FALSE
  /\ designData = InitialDesignData
  /\ pc = 0
  /\ lastOp = "init"

handlePhotosUpload(n) ==
  /\ step = "upload"
  /\ photos' = n
  /\ lastOp' = "handlePhotosUpload"
  /\ UNCHANGED <<step, address, progress, currentStage, aiResults,
                 hardscapeElements, landscapeElements, timeOfDay,
                 isProcessingPhotos, designData, pc>>

handleAddressChange(a) ==
  /\ step = "upload"
  /\ address' = a
  /\ lastOp' = "handleAddressChange"
  /\ UNCHANGED <<step, photos, progress, currentStage, aiResults,
                 hardscapeElements, landscapeElements, timeOfDay,
                 isProcessingPhotos, designData, pc>>

\* the button is rendered while step = 'upload' with a photo and an address;
\* the handler runs up to its first await
handleProcessPhotos ==
  /\ step = "upload" /\ photos > 0 /\ trim(address) # ""
  /\ step' = "processing"
  /\ isProcessingPhotos' = TRUE
  /\ currentStage' = 1
  /\ progress' = stages[1]
  /\ pc' = 1
  /\ lastOp' = "handleProcessPhotos"
  /\ UNCHANGED <<photos, address, aiResults, hardscapeElements,
                 landscapeElements, timeOfDay, designData>>

\* the timer of stage pc fires: next iteration of the loop
processStage ==
  /\ pc \in 1..Len(stages)
  /\ IF pc < Len(stages)
       THEN /\ currentStage' = pc + 1
            /\ progress' = stages[pc + 1]
       ELSE UNCHANGED <<currentStage, progress>>
  /\ pc' = pc + 1
  /\ lastOp' = "handleProcessPhotos"
  /\ UNCHANGED <<step, photos, address, aiResults, hardscapeElements,
                 landscapeElements, timeOfDay, isProcessingPhotos, designData>>

\* the handler ending on the upload step
processFinish_backToUpload ==
  /\ pc = Len(stages) + 1
  /\ aiResults' = analyzePhotosWithAddress
  /\ designData' = [designData EXCEPT
                      !.backyard = [dimensions |-> analyzePhotosWithAddress.dimensions]]
  /\ isProcessingPhotos' = FALSE
  /\ step' = "upload"
  /\ pc' = 0
  /\ lastOp' = "handleProcessPhotos"
  /\ UNCHANGED <<photos, address, progress, currentStage, hardscapeElements,
                 landscapeElements, timeOfDay>>

\* aiPromise is settled: results are stored and the design step opens
processFinish ==
  /\ pc = Len(stages) + 1
  /\ aiResults' = analyzePhotosWithAddress
  /\ designData' = [designData EXCEPT
                      !.backyard = [dimensions |-> analyzePhotosWithAddress.dimensions]]
  /\ isProcessingPhotos' = FALSE
  /\ step' = "design"
  /\ pc' = 0
  /\ lastOp' = "handleProcessPhotos"
  /\ UNCHANGED <<photos, address, progress, currentStage, hardscapeElements,
                 landscapeElements, timeOfDay>>

\* the updater function given to setDesignData
DesignUpdate(prev, category, property, value) ==
  IF category = "pool"
    THEN LET size == prev.pool.size IN
         IF property = "length"
           THEN [prev EXCEPT !.pool.size = <<value, size[2], size[3]>>]
         ELSE IF property = "width"
           THEN [prev EXCEPT !.pool.size = <<size[1], value, size[3]>>]
         ELSE IF property = "finish"
           THEN [prev EXCEPT !.pool.finish = value]
         ELSE [prev EXCEPT !.pool = [f \in DOMAIN prev.pool \cup {property} |->
                                       IF f = property THEN value ELSE prev.pool[f]]]
    ELSE prev

handleDesignUpdate(category, property, value) ==
  /\ step = "design"
  /\ designData' = DesignUpdate(designData, category, property, value)
  /\ lastOp' = "handleDesignUpdate"
  /\ UNCHANGED <<step, photos, address, progress, currentStage, aiResults,
                 hardscapeElements, landscapeElements, timeOfDay,
                 isProcessingPhotos, pc>>

handleTimeChange(newTimeOfDay) ==
  /\ step = "design"
  /\ timeOfDay' = newTimeOfDay
  /\ lastOp' = "handleTimeChange"
  /\ UNCHANGED <<step, photos, address, progress, currentStage, aiResults,
                 hardscapeElements, landscapeElements, isProcessingPhotos,
                 designData, pc>>

\* the new element put first:  [newElement, ...prev]
AddElement_prepend(prev, type, newPosition) ==
  << [type |-> type, position |-> newPosition, selected |-> FALSE] >> \o prev

\* the list after  [...prev, newElement]
AddElement(prev, type, newPosition) ==
  Append(prev, [type |-> type, position |-> newPosition, selected |-> FALSE])

\* the handler with a hardscape element put on both lists
handleAddElement_bothLists(category, type, newPosition) ==
  /\ step = "design"
  /\ Len(hardscapeElements) + Len(landscapeElements) < MaxElements
  /\ IF category = "hardscape"
       THEN /\ hardscapeElements' = AddElement(hardscapeElements, type, newPosition)
            /\ landscapeElements' = AddElement(landscapeElements, type, newPosition)
     ELSE IF category = "landscape"
       THEN /\ landscapeElements' = AddElement(landscapeElements, type, newPosition)
            /\ UNCHANGED hardscapeElements
     ELSE UNCHANGED <<hardscapeElements, landscapeElements>>
  /\ lastOp' = "handleAddElement"
  /\ UNCHANGED <<step, photos, address, progress, currentStage, aiResults,
                 timeOfDay, isProcessingPhotos, designData, pc>>

handleAddElement(category, type, newPosition) ==
  /\ step = "design"
  /\ Len(hardscapeElements) + Len(landscapeElements) < MaxElements
  /\ IF category = "hardscape"
       THEN /\ hardscapeElements' = AddElement(hardscapeElements, type, newPosition)
            /\ UNCHANGED landscapeElements
     ELSE IF category = "landscape"
       THEN /\ landscapeElements' = AddElement(landscapeElements, type, newPosition)
            /\ UNCHANGED hardscapeElements
     ELSE UNCHANGED <<hardscapeElements, landscapeElements>>
  /\ lastOp' = "handleAddElement"
  /\ UNCHANGED <<step, photos, address, progress, currentStage, aiResults,
                 timeOfDay, isProcessingPhotos, designData, pc>>

\* the map that moves every element of the type found at index
ElementDrag_byType(prev, index, newPosition) ==
  [i \in 1..Len(prev) |->
     IF index + 1 \in 1..Len(prev) /\ prev[i].type = prev[index + 1].type
       THEN [prev[i] EXCEPT !.position = newPosition] ELSE prev[i]]

\* prev.map((element, i) => i === index ? {...element, position} : element)
ElementDrag(prev, index, newPosition) ==
  [i \in 1..Len(prev) |->
     IF i = index + 1 THEN [prev[i] EXCEPT !.position = newPosition] ELSE prev[i]]

handleElementDrag(category, index, newPosition) ==
  /\ step = "design"
  /\ IF category = "hardscape"
       THEN /\ hardscapeElements' = ElementDrag(hardscapeElements, index, newPosition)
            /\ UNCHANGED landscapeElements
     ELSE IF category = "landscape"
       THEN /\ landscapeElements' = ElementDrag(landscapeElements, index, newPosition)
            /\ UNCHANGED hardscapeElements
     ELSE UNCHANGED <<hardscapeElements, landscapeElements>>
  /\ lastOp' = "handleElementDrag"
  /\ UNCHANGED <<step, photos, address, progress, currentStage, aiResults,
                 timeOfDay, isProcessingPhotos, designData, pc>>

\* a reset that leaves the time of day
handleExport_keepsTime(type) ==
  /\ step = "design"
  /\ IF type = "reset"
       THEN /\ hardscapeElements' = <<>>
            /\ landscapeElements' = <<>>
            /\ designData' = InitialDesignData
            /\ UNCHANGED timeOfDay
       ELSE UNCHANGED <<hardscapeElements, landscapeElements, timeOfDay, designData>>
  /\ lastOp' = IF type = "reset" THEN "handleExport(reset)" ELSE "handleExport"
  /\ UNCHANGED <<step, photos, address, progress, currentStage, aiResults,
                 isProcessingPhotos, pc>>

handleExport(type) ==
  /\ step = "design"
  /\ IF type = "reset"
       THEN /\ hardscapeElements' = <<>>
            /\ landscapeElements' = <<>>
            /\ timeOfDay' = "sunset"
            /\ designData' = InitialDesignData
       ELSE UNCHANGED <<hardscapeElements, landscapeElements, timeOfDay, designData>>
  /\ lastOp' = IF type = "reset" THEN "handleExport(reset)" ELSE "handleExport"
  /\ UNCHANGED <<step, photos, address, progress, currentStage, aiResults,
                 isProcessingPhotos, pc>>

\* the handlers of the design step that leave designData.pool alone: time of
\* day, element lists, export
ElementsNext ==
  \/ \E t \in TimeInputs : handleTimeChange(t)
        /\ UNCHANGED <<poolVars, heapVars, memoVars, pageVars,
                     autoVars, apiVars>>
  \/ \E c \in Categories, p \in Positions :
        \E t \in (IF c = "landscape" THEN LandscapeTypes ELSE HardscapeTypes) :
           handleAddElement(c, t, p)
             /\ UNCHANGED <<poolVars, heapVars, memoVars, pageVars,
                     autoVars, apiVars>>
  \/ \E c \in Categories, i \in 0..MaxElements, p \in Positions :
        handleElementDrag(c, i, p) /\ UNCHANGED <<poolVars, heapVars, memoVars, pageVars,
                     autoVars, apiVars>>
  \/ \E t \in {"quote", "3d", "reset"} : handleExport(t)
        /\ UNCHANGED <<poolVars, heapVars, memoVars, pageVars,
                     autoVars, apiVars>>

SessionNext ==
  \/ \E n \in 1..MaxPhotos : handlePhotosUpload(n)
        /\ UNCHANGED <<poolVars, heapVars, memoVars, pageVars,
                     autoVars, apiVars>>
  \/ \E a \in Addresses : handleAddressChange(a)
        /\ UNCHANGED <<poolVars, heapVars, memoVars, pageVars,
                     autoVars, apiVars>>
  \/ handleProcessPhotos /\ UNCHANGED <<poolVars, heapVars, memoVars, pageVars,
                     autoVars, apiVars>>
  \/ processStage /\ UNCHANGED <<poolVars, heapVars, memoVars, pageVars,
                     autoVars, apiVars>>
  \/ processFinish /\ UNCHANGED <<poolVars, heapVars, memoVars, pageVars,
                     autoVars, apiVars>>
  \/ \E c \in {"pool", "deck"}, d \in DesignInputs :
        handleDesignUpdate(c, d[1], d[2])
        /\ UNCHANGED <<poolVars, heapVars, memoVars, pageVars,
                     autoVars, apiVars>>
  \/ ElementsNext


\* ------------------------------------------------------------------------
\* Tables of the pool component
\* ------------------------------------------------------------------------
\* POOL_FINISHES with the roughness of plaster and pebbleTec exchanged
POOL_FINISHES_exchanged ==
  [plaster    |-> [shell |-> "#f8fafc", roughness |-> 8, metalness |-> 0, normalScale |-> 2],
   pebbleTec  |-> [shell |-> "#4a7c59", roughness |-> 3, metalness |-> 0, normalScale |-> 6],
   glassTile  |-> [shell |-> "#1e40af", roughness |-> 1, metalness |-> 4, normalScale |-> 1],
   quartzite  |-> [shell |-> "#6b7280", roughness |-> 4, metalness |-> 2, normalScale |-> 3],
   fiberglass |-> [shell |-> "#0ea5e9", roughness |-> 2, metalness |-> 1, normalScale |-> 1]]

\* POOL_FINISHES, identical in the three copies of the component
POOL_FINISHES ==
  [plaster    |-> [shell |-> "#f8fafc", roughness |-> 3, metalness |-> 0, normalScale |-> 2],
   pebbleTec  |-> [shell |-> "#4a7c59", roughness |-> 8, metalness |-> 0, normalScale |-> 6],
   glassTile  |-> [shell |-> "#1e40af", roughness |-> 1, metalness |-> 4, normalScale |-> 1],
   quartzite  |-> [shell |-> "#6b7280", roughness |-> 4, metalness |-> 2, normalScale |-> 3],
   fiberglass |-> [shell |-> "#0ea5e9", roughness |-> 2, metalness |-> 1, normalScale |-> 1]]

\* the finishes table local to Pool in src/pages/index.js
finishes ==
  [plaster    |-> [shell |-> "#ffffff", roughness |-> 7, metalness |-> 0],
   pebble     |-> [shell |-> "#4a7c59", roughness |-> 9, metalness |-> 0],
   tile       |-> [shell |-> "#1e3a8a", roughness |-> 1, metalness |-> 4],
   fiberglass |-> [shell |-> "#0ea5e9", roughness |-> 2, metalness |-> 1]]

WATER_COLORS ==
  [sunrise |-> "#87CEEB", morning |-> "#4169E1", noon |-> "#1e40af",
   afternoon |-> "#2563eb", sunset |-> "#3b82f6", evening |-> "#1e3a8a",
   night |-> "#0f172a"]

\* waterColors local to Pool in src/pages/index.js (night differs)
waterColors ==
  [sunrise |-> "#87CEEB", morning |-> "#4169E1", noon |-> "#1e40af",
   afternoon |-> "#2563eb", sunset |-> "#3b82f6", evening |-> "#1e3a8a",
   night |-> "#1e293b"]

\* lightingSettings of Scene (intensities in tenths)
lightingSettings ==
  [sunrise   |-> [ambient |-> [intensity |-> 3, color |-> "#FFE4B5"],
                  sun |-> [intensity |-> 12, color |-> "#FFB347", position |-> <<50, 15, 30>>],
                  environment |-> "dawn"],
   morning   |-> [ambient |-> [intensity |-> 4, color |-> "#F0F8FF"],
                  sun |-> [intensity |-> 15, color |-> "#FFFFFF", position |-> <<30, 25, 20>>],
                  environment |-> "city"],
   noon      |-> [ambient |-> [intensity |-> 5, color |-> "#FFFFFF"],
                  sun |-> [intensity |-> 20, color |-> "#FFFFFF", position |-> <<0, 50, 0>>],
                  environment |-> "warehouse"],
   afternoon |-> [ambient |-> [intensity |-> 4, color |-> "#FFF8DC"],
                  sun |-> [intensity |-> 16, color |-> "#FFD700", position |-> <<-20, 30, 15>>],
                  environment |-> "park"],
   sunset    |-> [ambient |-> [intensity |-> 3, color |-> "#FF6347"],
                  sun |-> [intensity |-> 10, color |-> "#FF4500", position |-> <<-40, 10, 20>>],
                  environment |-> "sunset"],
   evening   |-> [ambient |-> [intensity |-> 2, color |-> "#4169E1"],
                  sun |-> [intensity |-> 3, color |-> "#191970", position |-> <<-50, 5, 30>>],
                  environment |-> "night"],
   night     |-> [ambient |-> [intensity |-> 1, color |-> "#191970"],
                  sun |-> [intensity |-> 1, color |-> "#000080", position |-> <<-60, -10, 40>>],
                  environment |-> "night"]]

\* A property read  table[key]  on an object literal also finds the members
\* every object inherits from Object.prototype; these are truthy, so the
\* fallback of  table[key] || table.default  is not taken for them.
ObjectPrototypeKeys ==
  {"constructor", "toString", "valueOf", "hasOwnProperty", "__proto__"}
\* such a member read as an object: it has none of the tables' fields
InheritedMember == [inherited |-> "Object.prototype"]
\* such a member used where a colour string is expected
InheritedColor == "[Object.prototype member]"

\* POOL_FINISHES[finish] || POOL_FINISHES.plaster
currentFinish(table, finish) ==
  IF finish \in DOMAIN table THEN table[finish]
  ELSE IF finish \in ObjectPrototypeKeys THEN InheritedMember
  ELSE table.plaster

\* WATER_COLORS[timeOfDay] || WATER_COLORS.sunset
currentWaterColor(table, t) ==
  IF t \in DOMAIN table THEN table[t]
  ELSE IF t \in ObjectPrototypeKeys THEN InheritedColor
  ELSE table.sunset

\* lightingSettings[timeOfDay] || lightingSettings.sunset
currentLighting(t) ==
  IF t \in DOMAIN lightingSettings THEN lightingSettings[t]
  ELSE IF t \in ObjectPrototypeKeys THEN InheritedMember
  ELSE lightingSettings.sunset

\* ------------------------------------------------------------------------
\* Geometry
\* ------------------------------------------------------------------------
SupportedShapes == {"rectangle", "lagoon", "kidney", "infinity", "lShaped", "lap"}

\* new THREE.BoxGeometry(x, y, z): x along the length axis, y up, z across
Box(x, y, z) == [kind |-> "box", args |-> <<x, y, z>>]
Cylinder(rTop, rBottom, h) == [kind |-> "cylinder", args |-> <<rTop, rBottom, h>>]
\* the curve ended at its second control point
bezierCurveTo_endAtControl(c1, c2, to) ==
  [type |-> "bezier", cp1 |-> c1, cp2 |-> c2, to |-> c2]
bezierCurveTo(c1, c2, to) == [type |-> "bezier", cp1 |-> c1, cp2 |-> c2, to |-> to]
lineTo(to) == [type |-> "line", to |-> to]
\* new THREE.ExtrudeGeometry(shape, settings); bevel = <<bevelSize, bevelThickness>>
\* or <<>> when bevelEnabled is false
ExtrudeGeometry(moveTo, segments, depth, bevel) ==
  [kind |-> "extrude", moveTo |-> moveTo, segments |-> segments,
   depth |-> depth, bevel |-> bevel]


\* generatePoolGeometry with the default label missing: an unknown shape
\* runs into the last case
generatePoolGeometry_fallthrough(shape, size) ==
  LET length == size[1]
      width  == size[2]
      depth  == size[3]
  IN CASE shape = "rectangle" -> Box(100 * length, 100 * depth, 100 * width)
       [] shape = "lagoon" ->
            ExtrudeGeometry(<<0, 0>>,
              << bezierCurveTo(<<30 * length, -20 * width>>, <<70 * length, -20 * width>>,
                               <<100 * length, 0>>),
                 bezierCurveTo(<<120 * length, 30 * width>>, <<120 * length, 70 * width>>,
                               <<100 * length, 100 * width>>),
                 bezierCurveTo(<<70 * length, 120 * width>>, <<30 * length, 120 * width>>,
                               <<0, 100 * width>>),
                 bezierCurveTo(<<-20 * width, 70 * width>>, <<-20 * width, 30 * width>>,
                               <<0, 0>>) >>,
              100 * depth, <<>>)
       [] shape = "kidney" ->
            ExtrudeGeometry(<<0, 20 * width>>,
              << bezierCurveTo(<<60 * length, -10 * width>>, <<140 * length, 40 * width>>,
                               <<90 * length, 80 * width>>),
                 bezierCurveTo(<<40 * length, 110 * width>>, <<10 * length, 90 * width>>,
                               <<0, 60 * width>>),
                 bezierCurveTo(<<-10 * length, 40 * width>>, <<0, 20 * width>>,
                               <<0, 20 * width>>) >>,
              100 * depth, <<>>)
       [] shape = "infinity" -> Box(100 * length, 100 * depth, 100 * width)
       [] shape = "lShaped" ->
            ExtrudeGeometry(<<0, 0>>,
              << lineTo(<<60 * length, 0>>),
                 lineTo(<<60 * length, 40 * width>>),
                 lineTo(<<100 * length, 40 * width>>),
                 lineTo(<<100 * length, 100 * width>>),
                 lineTo(<<0, 100 * width>>),
                 lineTo(<<0, 0>>) >>,
              100 * depth, <<>>)
       [] shape = "lap" -> Box(180 * length, 100 * depth, 60 * width)
       [] OTHER -> Box(180 * length, 100 * depth, 60 * width)

\* generatePoolGeometry of src/components/EnhancedPool.js
generatePoolGeometry(shape, size) ==
  LET length == size[1]
      width  == size[2]
      depth  == size[3]
  IN CASE shape = "rectangle" -> Box(100 * length, 100 * depth, 100 * width)
       [] shape = "lagoon" ->
            ExtrudeGeometry(<<0, 0>>,
              << bezierCurveTo(<<30 * length, -20 * width>>, <<70 * length, -20 * width>>,
                               <<100 * length, 0>>),
                 bezierCurveTo(<<120 * length, 30 * width>>, <<120 * length, 70 * width>>,
                               <<100 * length, 100 * width>>),
                 bezierCurveTo(<<70 * length, 120 * width>>, <<30 * length, 120 * width>>,
                               <<0, 100 * width>>),
                 bezierCurveTo(<<-20 * width, 70 * width>>, <<-20 * width, 30 * width>>,
                               <<0, 0>>) >>,
              100 * depth, <<>>)
       [] shape = "kidney" ->
            ExtrudeGeometry(<<0, 20 * width>>,
              << bezierCurveTo(<<60 * length, -10 * width>>, <<140 * length, 40 * width>>,
                               <<90 * length, 80 * width>>),
                 bezierCurveTo(<<40 * length, 110 * width>>, <<10 * length, 90 * width>>,
                               <<0, 60 * width>>),
                 bezierCurveTo(<<-10 * length, 40 * width>>, <<0, 20 * width>>,
                               <<0, 20 * width>>) >>,
              100 * depth, <<>>)
       [] shape = "infinity" -> Box(100 * length, 100 * depth, 100 * width)
       [] shape = "lShaped" ->
            ExtrudeGeometry(<<0, 0>>,
              << lineTo(<<60 * length, 0>>),
                 lineTo(<<60 * length, 40 * width>>),
                 lineTo(<<100 * length, 40 * width>>),
                 lineTo(<<100 * length, 100 * width>>),
                 lineTo(<<0, 100 * width>>),
                 lineTo(<<0, 0>>) >>,
              100 * depth, <<>>)
       [] shape = "lap" -> Box(180 * length, 100 * depth, 60 * width)
       [] OTHER -> Box(100 * length, 100 * depth, 100 * width)

\* generatePoolGeometry of the component copy that follows the API route in
\* src/pages/api/places-autocomplete.js (centerX = length / 2 = 50*length)
generatePoolGeometryOrganic(shape, size) ==
  LET length == size[1]
      width  == size[2]
      depth  == size[3]
  IN CASE shape = "rectangle" -> Box(100 * length, 100 * depth, 100 * width)
       [] shape = "lagoon" ->
            ExtrudeGeometry(<<15 * length, 0>>,
              << bezierCurveTo(<<60 * length, 10 * width>>, <<55 * length, 40 * width>>,
                               <<45 * length, 50 * width>>),
                 bezierCurveTo(<<35 * length, 65 * width>>, <<15 * length, 60 * width>>,
                               <<5 * length, 40 * width>>),
                 bezierCurveTo(<<-5 * length, 20 * width>>, <<5 * length, 5 * width>>,
                               <<15 * length, 0>>) >>,
              100 * depth, <<30, 20>>)
       [] shape = "kidney" ->
            ExtrudeGeometry(<<10 * length, 15 * width>>,
              << bezierCurveTo(<<75 * length, 5 * width>>, <<65 * length, 45 * width>>,
                               <<40 * length, 50 * width>>),
                 bezierCurveTo(<<25 * length, 60 * width>>, <<10 * length, 55 * width>>,
                               <<5 * length, 35 * width>>),
                 bezierCurveTo(<<-5 * length, 25 * width>>, <<5 * length, 10 * width>>,
                               <<10 * length, 15 * width>>) >>,
              100 * depth, <<20, 10>>)
       [] shape = "infinity" -> Box(100 * length, 100 * depth, 100 * width)
       \* shape2 = Box(40*length, 100*depth, 40*width) is built and dropped
       [] shape = "lShaped" -> Box(60 * length, 100 * depth, 60 * width)
       [] shape = "lap" -> Box(150 * length, 100 * depth, 50 * width)
       [] OTHER -> Box(100 * length, 100 * depth, 100 * width)

\* a mesh: a geometry placed at a position
Mesh(geometry, position) == [geometry |-> geometry, position |-> position]

\* the meshes PoolShape returns (src/unnamed/part_000)
PoolShape(shape, size) ==
  LET length == size[1]
      width  == size[2]
      depth  == size[3]
      rect   == << Mesh(Box(100 * length, 100 * depth, 100 * width),
                        <<0, -50 * depth, 0>>) >>
  IN CASE shape = "rectangle" -> rect
       [] shape = "lagoon" ->
            << Mesh(Cylinder(60 * length, 50 * length, 100 * depth), <<0, -50 * depth, 0>>),
               Mesh(Cylinder(40 * width, 30 * width, 100 * depth),
                    <<30 * length, -50 * depth, 20 * width>>) >>
       [] shape = "kidney" ->
            << Mesh(Cylinder(40 * length, 40 * length, 100 * depth), <<0, -50 * depth, 0>>),
               Mesh(Cylinder(35 * width, 30 * width, 100 * depth),
                    <<20 * length, -50 * depth, -15 * width>>) >>
       [] shape = "infinity" ->
            rect \o << Mesh(Box(100 * length, 10 * depth, 10 * width), <<0, 0, -50 * width>>) >>
       [] shape = "lShaped" ->
            << Mesh(Box(60 * length, 100 * depth, 100 * width),
                    <<20 * length, -50 * depth, 0>>),
               Mesh(Box(40 * length, 100 * depth, 50 * width),
                    <<-10 * length, -50 * depth, 25 * width>>) >>
       [] shape = "lap" ->
            << Mesh(Box(180 * length, 100 * depth, 60 * width), <<0, -50 * depth, 0>>) >>
       [] OTHER -> rect

\* getWaterDimensions of src/components/EnhancedPool.js
getWaterDimensions(shape, size) ==
  CASE shape = "lagoon"  -> <<110 * size[1], 110 * size[3]>>
    [] shape = "kidney"  -> <<90 * size[1], 80 * size[3]>>
    [] shape = "lShaped" -> <<80 * size[1], 80 * size[3]>>
    [] shape = "lap"     -> <<180 * size[1], 60 * size[3]>>
    [] OTHER             -> <<100 * size[1] - 80, 100 * size[3] - 80>>

\* getWaterSize of PoolWater (src/unnamed/part_000): [length, width] = size
getWaterSize(shape, size) ==
  LET length == size[1]
      width  == size[2]
  IN CASE shape = "lagoon"  -> <<90 * length, 90 * width>>
       [] shape = "kidney"  -> <<80 * length, 80 * width>>
       [] shape = "lShaped" -> <<90 * length, 80 * width>>
       [] shape = "lap"     -> <<160 * length, 50 * width>>
       [] OTHER             -> <<100 * length - 100, 100 * width - 100>>


\* ------------------------------------------------------------------------
\* The pool component: props, pointer state and what one render produces
\* ------------------------------------------------------------------------
Sources == {"EnhancedPool.js", "part_000", "places-autocomplete.js", "index.js"}
Dims == {6 * k : k \in 1..MaxDim}
\* the sizes the sources themselves use: default prop of EnhancedPool,
\* initial designData of index.js, default prop of Pool
Sizes == (Dims \X Dims \X Dims) \cup {<<24, 6, 12>>, <<24, 12, 6>>, <<16, 8, 6>>}
ShapeInputs == SupportedShapes \cup {"unknownXYZ"}
FinishInputs == {"plaster", "pebbleTec", "unknownXYZ", "constructor"}
PoolTimeInputs == {"sunset", "night", "unknownXYZ", "constructor"}

\* the props a meshStandardMaterial gets from a finish entry cf: colour
\* (or the highlight colour), and of roughness / metalness those in fields;
\* a prop that evaluates to undefined or NaN is listed, not valued
Material(cf, highlight, fields, plus) ==
  IF "shell" \in DOMAIN cf
    THEN [f \in {"color"} \cup fields |->
            CASE f = "color" -> IF highlight # "" THEN highlight ELSE cf.shell
              [] f = "roughness" -> cf.roughness + plus
              [] f = "metalness" -> cf.metalness]
    ELSE [f \in {"undefinedOrNaN"} \cup (IF highlight # "" THEN {"color"} ELSE {}) |->
            IF f = "color" THEN highlight
            ELSE fields \cup (IF highlight # "" THEN {} ELSE {"color"})]

RM == {"roughness", "metalness"}

\* EnhancedPool of src/components/EnhancedPool.js
EnhancedPool(p, hov, drag) ==
  LET cf == currentFinish(POOL_FINISHES, p.finish)
      shown == {"shell", "steps"}
                 \cup (IF p.hasInfinityEdge THEN {"infinityEdge"} ELSE {})
                 \cup (IF p.hasSpillover THEN {"spa"} ELSE {})
  IN [error |-> "none",
      solids |-> << Mesh(generatePoolGeometry(p.shape, p.size),
                         <<0, -50 * p.size[2], 0>>) >>,
      materials |-> [m \in shown |->
         CASE m = "shell" -> Material(cf, IF hov \/ drag THEN "#fbbf24" ELSE "", RM, 0)
           [] m = "steps" -> Material(cf, "", RM, 2)
           [] m = "infinityEdge" -> Material(cf, "", {}, 0)
           [] m = "spa" -> Material(cf, "", RM, 0)],
      water |-> [args |-> getWaterDimensions(p.shape, p.size),
                 color |-> currentWaterColor(WATER_COLORS, p.timeOfDay)]]

\* EnhancedPool of the copy in src/pages/api/places-autocomplete.js
EnhancedPoolOrganic(p, hov, drag) ==
  LET cf == currentFinish(POOL_FINISHES, p.finish)
      shown == {"shell", "steps"}
                 \cup (IF p.hasInfinityEdge THEN {"infinityEdge"} ELSE {})
                 \cup (IF p.hasSpillover THEN {"spa"} ELSE {})
  IN [error |-> "none",
      solids |-> << Mesh(generatePoolGeometryOrganic(p.shape, p.size),
                         <<0, -50 * p.size[2], 0>>) >>,
      materials |-> [m \in shown |->
         CASE m = "shell" -> Material(cf, IF hov \/ drag THEN "#fbbf24" ELSE "", RM, 0)
           [] m = "steps" -> Material(cf, "", RM, 2)
           [] m = "infinityEdge" -> Material(cf, "", {}, 0)
           [] m = "spa" -> Material(cf, "", RM, 0)],
      water |-> [args |-> <<100 * p.size[1] - 80, 100 * p.size[3] - 80>>,
                 color |-> currentWaterColor(WATER_COLORS, p.timeOfDay)]]

\* the finish the spillover spa of src/unnamed/part_000 reads:
\* POOL_FINISHES[finish], with no fallback
spaFinish(finish) ==
  IF finish \in DOMAIN POOL_FINISHES THEN POOL_FINISHES[finish]
  ELSE IF finish \in ObjectPrototypeKeys THEN InheritedMember
  ELSE [undefined |-> TRUE]

\* EnhancedPool of src/unnamed/part_000 (PoolShape + PoolWater)
EnhancedPoolSimple(p, hov, drag) ==
  LET cf == currentFinish(POOL_FINISHES, p.finish)
      shown == {"shell"}
                 \cup (IF p.shape = "infinity" THEN {"infinityEdge"} ELSE {})
                 \cup (IF p.hasSpillover THEN {"spa"} ELSE {})
  IN IF p.hasSpillover /\ spaFinish(p.finish) = [undefined |-> TRUE]
       THEN [error |-> "TypeError"]    \* reading .shell of undefined
       ELSE [error |-> "none",
             solids |-> PoolShape(p.shape, p.size),
             materials |-> [m \in shown |->
                CASE m = "shell" ->
                       Material(cf, IF hov \/ drag THEN "#fbbf24" ELSE "", RM, 0)
                  [] m = "infinityEdge" -> Material(cf, "", {}, 0)
                  [] m = "spa" -> Material(spaFinish(p.finish), "", RM, 0)],
             water |-> [args |-> getWaterSize(p.shape, p.size),
                        color |-> currentWaterColor(WATER_COLORS, p.timeOfDay)]]

\* Scene of src/pages/index.js with its Pool: lights, pool box, water
Scene(p, hov, drag) ==
  LET lighting == currentLighting(p.timeOfDay)
      cf == currentFinish(finishes, p.finish)
  IN IF "ambient" \notin DOMAIN lighting
       THEN [error |-> "TypeError"]    \* reading .intensity of undefined
       ELSE [error |-> "none",
             lighting |-> [ambient |-> lighting.ambient, sun |-> lighting.sun,
                           environment |-> lighting.environment,
                           spotLight |-> p.timeOfDay \in {"sunrise", "sunset"}],
             solids |-> << Mesh(Box(100 * p.size[1], 160, 100 * p.size[2]),
                                <<0, -80, 0>>) >>,
             materials |-> [m \in {"shell", "steps"} |->
                CASE m = "shell" ->
                       Material(cf, IF hov \/ drag THEN "#ffff00" ELSE "", RM, 0)
                  [] m = "steps" -> Material(cf, "", RM, 0)],
             water |-> [args |-> <<100 * p.size[1] - 100, 100 * p.size[2] - 100>>,
                        color |-> currentWaterColor(waterColors, p.timeOfDay)]]

Render(src, p, hov, drag) ==
  CASE src = "EnhancedPool.js" -> EnhancedPool(p, hov, drag)
    [] src = "places-autocomplete.js" -> EnhancedPoolOrganic(p, hov, drag)
    [] src = "part_000" -> EnhancedPoolSimple(p, hov, drag)
    [] src = "index.js" -> Scene(p, hov, drag)

DefaultProps ==
  [shape |-> "rectangle", size |-> <<24, 6, 12>>, finish |-> "plaster",
   timeOfDay |-> "sunset", hasInfinityEdge |-> FALSE, hasSpillover |-> FALSE]

PoolInit ==
  /\ source \in Sources
  /\ props = DefaultProps
  /\ hovered = FALSE
  /\ isDragging = FALSE
  /\ rendered = Render(source, props, hovered, isDragging)

\* the parent renders the component with one prop changed
SetProp(name, value) ==
  /\ props' = [props EXCEPT ![name] = value]
  /\ rendered' = Render(source, props', hovered, isDragging)
  /\ UNCHANGED <<source, hovered, isDragging>>

\* a render that threw leaves no mesh to receive pointer events
onPointerOver ==
  /\ rendered.error = "none"
  /\ hovered' = TRUE
  /\ rendered' = Render(source, props, hovered', isDragging)
  /\ UNCHANGED <<source, props, isDragging>>

onPointerOut ==
  /\ rendered.error = "none"
  /\ hovered' = FALSE
  /\ rendered' = Render(source, props, hovered', isDragging)
  /\ UNCHANGED <<source, props, isDragging>>

onPointerDown ==
  /\ rendered.error = "none"
  /\ isDragging' = TRUE
  /\ rendered' = Render(source, props, hovered, isDragging')
  /\ UNCHANGED <<source, props, hovered>>

onPointerUp ==
  /\ rendered.error = "none"
  /\ isDragging' = FALSE
  /\ rendered' = Render(source, props, hovered, isDragging')
  /\ UNCHANGED <<source, props, hovered>>

PoolNext ==
  \/ \E s \in ShapeInputs : SetProp("shape", s)
        /\ UNCHANGED <<sessionVars, heapVars, memoVars, pageVars,
                     autoVars, apiVars>>
  \/ \E s \in Sizes : SetProp("size", s) /\ UNCHANGED <<sessionVars, heapVars, memoVars, pageVars,
                     autoVars, apiVars>>
  \/ \E f \in FinishInputs : SetProp("finish", f)
        /\ UNCHANGED <<sessionVars, heapVars, memoVars, pageVars,
                     autoVars, apiVars>>
  \/ \E t \in PoolTimeInputs : SetProp("timeOfDay", t)
        /\ UNCHANGED <<sessionVars, heapVars, memoVars, pageVars,
                     autoVars, apiVars>>
  \/ \E b \in BOOLEAN : SetProp("hasInfinityEdge", b)
        /\ UNCHANGED <<sessionVars, heapVars, memoVars, pageVars,
                     autoVars, apiVars>>
  \/ \E b \in BOOLEAN : SetProp("hasSpillover", b)
        /\ UNCHANGED <<sessionVars, heapVars, memoVars, pageVars,
                     autoVars, apiVars>>
  \/ onPointerOver /\ UNCHANGED <<sessionVars, heapVars, memoVars, pageVars,
                     autoVars, apiVars>>
  \/ onPointerOut /\ UNCHANGED <<sessionVars, heapVars, memoVars, pageVars,
                     autoVars, apiVars>>
  \/ onPointerDown /\ UNCHANGED <<sessionVars, heapVars, memoVars, pageVars,
                     autoVars, apiVars>>
  \/ onPointerUp /\ UNCHANGED <<sessionVars, heapVars, memoVars, pageVars,
                     autoVars, apiVars>>


\* ------------------------------------------------------------------------
\* Session state as JavaScript objects: heap[r] is the content of object r,
\* the React state holds references.  Objects are allocated in the order the
\* handler's expressions are evaluated.
\* ------------------------------------------------------------------------
Array(items) == [kind |-> "array", items |-> items]

HeapInitial ==
  << [kind |-> "designData", pool |-> 2, backyard |-> 5],
     [kind |-> "pool", position |-> 3, size |-> 4, shape |-> "rectangle",
      color |-> "#0066cc", finish |-> "plaster"],
     Array(<<0, 0, 0>>),
     Array(<<24, 12, 6>>),
     [kind |-> "backyard", dimensions |-> 6],
     [kind |-> "dimensions", length |-> 50, width |-> 35],
     Array(<<>>),
     Array(<<>>) >>

HeapInit ==
  /\ heap = HeapInitial
  /\ designDataRef = 1
  /\ hardscapeRef = 7
  /\ landscapeRef = 8
  /\ heapOp = "init"

\* the updater writing into the objects it was given: prev.pool.size[0] =
\* value (or [1]), prev.pool[property] = value, and returning prev
DesignUpdateHeap_inPlace(h, prev, category, property, value) ==
  LET pool == h[h[prev].pool]
      size == h[pool.size].items
  IN IF category = "pool"
       THEN IF property \in {"length", "width"}
              THEN [heap |-> [h EXCEPT ![pool.size] =
                                Array(IF property = "length"
                                        THEN <<value, size[2], size[3]>>
                                        ELSE <<size[1], value, size[3]>>)],
                    ref |-> prev]
              ELSE [heap |-> [h EXCEPT ![h[prev].pool] =
                                [f \in DOMAIN pool \cup {property} |->
                                   IF f = property THEN value ELSE pool[f]]],
                    ref |-> prev]
       ELSE [heap |-> h, ref |-> prev]

\* the updater of handleDesignUpdate on objects: the heap after it ran and
\* the reference it returns
DesignUpdateHeap(h, prev, category, property, value) ==
  LET n == Len(h)
      pool == h[h[prev].pool]
      size == h[pool.size].items
  IN IF category = "pool"
       THEN IF property \in {"length", "width"}
              THEN \* { ...prev.pool }, the new size array, { ...prev, pool }
                   [heap |-> h \o << [pool EXCEPT !.size = n + 2],
                                     Array(IF property = "length"
                                             THEN <<value, size[2], size[3]>>
                                             ELSE <<size[1], value, size[3]>>),
                                     [h[prev] EXCEPT !.pool = n + 1] >>,
                    ref |-> n + 3]
              ELSE \* { ...prev.pool } with the property assigned, { ...prev, pool }
                   [heap |-> h \o << [f \in DOMAIN pool \cup {property} |->
                                        IF f = property THEN value ELSE pool[f]],
                                     [h[prev] EXCEPT !.pool = n + 1] >>,
                    ref |-> n + 2]
       ELSE [heap |-> h, ref |-> prev]

handleDesignUpdateHeap(category, property, value) ==
  /\ Len(heap) + 3 <= MaxHeap
  /\ LET r == DesignUpdateHeap(heap, designDataRef, category, property, value)
     IN /\ heap' = r.heap
        /\ designDataRef' = r.ref
  /\ heapOp' = "handleDesignUpdate"
  /\ UNCHANGED <<hardscapeRef, landscapeRef>>

\* handleAddElement on objects: newPosition, newElement, [...prev, newElement]
AddElementHeap(h, prev, type, newPosition) ==
  LET n == Len(h)
  IN [heap |-> h \o << Array(newPosition),
                       [kind |-> "element", type |-> type, position |-> n + 1,
                        selected |-> FALSE],
                       Array(Append(h[prev].items, n + 2)) >>,
      ref |-> n + 3]

handleAddElementHeap(category, type, newPosition) ==
  /\ Len(heap) + 3 <= MaxHeap
  /\ LET list == IF category = "hardscape" THEN hardscapeRef ELSE landscapeRef
         r == AddElementHeap(heap, list, type, newPosition)
     IN IF category = "hardscape"
          THEN heap' = r.heap /\ hardscapeRef' = r.ref /\ UNCHANGED landscapeRef
        ELSE IF category = "landscape"
          THEN heap' = r.heap /\ landscapeRef' = r.ref /\ UNCHANGED hardscapeRef
        ELSE \* newPosition and newElement are built and dropped
             /\ heap' = SubSeq(r.heap, 1, Len(heap) + 2)
             /\ UNCHANGED <<hardscapeRef, landscapeRef>>
  /\ heapOp' = "handleAddElement"
  /\ UNCHANGED designDataRef

\* handleElementDrag on objects: the newPosition array built by
\* handlePointerMove, the array prev.map returns, and a copy of the element
\* at index when there is one
ElementDragHeap(h, prev, index, newPosition) ==
  LET n == Len(h)
      items == h[prev].items
      hit == index + 1 \in 1..Len(items)
  IN [heap |-> h \o << Array(newPosition),
                       Array([i \in 1..Len(items) |->
                                IF i = index + 1 THEN n + 3 ELSE items[i]]) >>
                   \o (IF hit THEN << [h[items[index + 1]] EXCEPT !.position = n + 1] >>
                              ELSE << >>),
      ref |-> n + 2]

handleElementDragHeap(category, index, newPosition) ==
  /\ Len(heap) + 3 <= MaxHeap
  /\ LET list == IF category = "hardscape" THEN hardscapeRef ELSE landscapeRef
         r == ElementDragHeap(heap, list, index, newPosition)
     IN IF category = "hardscape"
          THEN heap' = r.heap /\ hardscapeRef' = r.ref /\ UNCHANGED landscapeRef
        ELSE IF category = "landscape"
          THEN heap' = r.heap /\ landscapeRef' = r.ref /\ UNCHANGED hardscapeRef
        ELSE /\ heap' = SubSeq(r.heap, 1, Len(heap) + 1)
             /\ UNCHANGED <<hardscapeRef, landscapeRef>>
  /\ heapOp' = "handleElementDrag"
  /\ UNCHANGED designDataRef

HeapDesignInputs ==
  {<<"length", 20>>, <<"finish", "pebble">>, <<"shape", "lagoon">>}

HeapNext ==
  \/ \E c \in {"pool", "deck"}, d \in HeapDesignInputs :
        handleDesignUpdateHeap(c, d[1], d[2])
        /\ UNCHANGED <<sessionVars, poolVars, memoVars, pageVars,
                     autoVars, apiVars>>
  \/ \E c \in Categories, t \in {"firepit"}, p \in Positions :
        handleAddElementHeap(c, t, p) /\ UNCHANGED <<sessionVars, poolVars, memoVars, pageVars,
                     autoVars, apiVars>>
  \/ \E c \in Categories, i \in 0..1, p \in Positions :
        handleElementDragHeap(c, i, p) /\ UNCHANGED <<sessionVars, poolVars, memoVars, pageVars,
                     autoVars, apiVars>>

\* ------------------------------------------------------------------------
\* The geometry cache of EnhancedPool:
\*   const poolGeometry = useMemo(() => generatePoolGeometry(shape, size),
\*                                [shape, size])
\* React compares each dependency with Object.is: shape by value, size (an
\* array) by identity.  An array object is [ref, items]; the code never
\* writes into a size array, so items is fixed per ref.
\* ------------------------------------------------------------------------
MaxAlloc == 7
\* the parent passes no size prop: the default  size = [24, 6, 12]  is
\* evaluated, a new array, at every render
Omitted == [omitted |-> TRUE]

\* one render of EnhancedPool with the props the parent passes; sizeArg is
\* Omitted or an array object
MemoRender(shape, finish, time, sizeArg) ==
  LET fresh == sizeArg = Omitted
      size == IF fresh THEN [ref |-> allocated + 1, items |-> <<24, 6, 12>>]
              ELSE sizeArg
      made == IF size.ref > allocated THEN size.ref ELSE allocated
      deps == <<shape, size.ref>>
  IN /\ memoProps' = [shape |-> shape, finish |-> finish, timeOfDay |-> time,
                      size |-> size, sizeOmitted |-> fresh]
     /\ IF deps = poolGeometry.deps
          THEN /\ poolGeometry' = poolGeometry
               /\ allocated' = made
          ELSE /\ poolGeometry' = [deps |-> deps, id |-> made + 1,
                                   value |-> generatePoolGeometry(shape, size.items)]
               /\ allocated' = made + 1

\* the size argument of the next render when the parent does not touch size
SameSizeArg == IF memoProps.sizeOmitted THEN Omitted ELSE memoProps.size

\* first render (mount): the parent passes a size array or none
MemoInit ==
  /\ \E omitted \in BOOLEAN :
       LET size == IF omitted THEN [ref |-> 1, items |-> <<24, 6, 12>>]
                   ELSE [ref |-> 1, items |-> <<24, 12, 6>>]
       IN /\ memoProps = [shape |-> "rectangle", finish |-> "plaster",
                          timeOfDay |-> "sunset", size |-> size,
                          sizeOmitted |-> omitted]
          /\ poolGeometry = [deps |-> <<"rectangle", 1>>, id |-> 2,
                             value |-> generatePoolGeometry("rectangle", size.items)]
  /\ allocated = 2
  /\ memoOp = "mount"

MemoIdle ==
  /\ memoProps = [shape |-> "rectangle", finish |-> "plaster",
                  timeOfDay |-> "sunset",
                  size |-> [ref |-> 1, items |-> <<24, 6, 12>>],
                  sizeOmitted |-> TRUE]
  /\ poolGeometry = [deps |-> <<"rectangle", 1>>, id |-> 2,
                     value |-> generatePoolGeometry("rectangle", <<24, 6, 12>>)]
  /\ allocated = 2
  /\ memoOp = "mount"

renderShape(shape) ==
  /\ allocated + 2 <= MaxAlloc
  /\ shape # memoProps.shape
  /\ MemoRender(shape, memoProps.finish, memoProps.timeOfDay, SameSizeArg)
  /\ memoOp' = "shape"

renderFinish(finish) ==
  /\ allocated + 2 <= MaxAlloc
  /\ finish # memoProps.finish
  /\ MemoRender(memoProps.shape, finish, memoProps.timeOfDay, SameSizeArg)
  /\ memoOp' = "finish"

renderTimeOfDay(time) ==
  /\ allocated + 2 <= MaxAlloc
  /\ time # memoProps.timeOfDay
  /\ MemoRender(memoProps.shape, memoProps.finish, time, SameSizeArg)
  /\ memoOp' = "timeOfDay"

\* the parent passes a new size array, as handleDesignUpdate builds one for
\* a length or width edit
renderSize(items) ==
  /\ allocated + 3 <= MaxAlloc
  /\ items # memoProps.size.items
  /\ MemoRender(memoProps.shape, memoProps.finish, memoProps.timeOfDay,
                [ref |-> allocated + 1, items |-> items])
  /\ memoOp' = "size"

MemoSizes == {<<24, 6, 12>>, <<24, 12, 6>>, <<20, 12, 6>>, <<24, 12, 8>>}

MemoNext ==
  \/ \E s \in {"rectangle", "lagoon", "lap"} : renderShape(s)
        /\ UNCHANGED <<sessionVars, poolVars, heapVars, pageVars,
                     autoVars, apiVars>>
  \/ \E f \in {"plaster", "pebbleTec"} : renderFinish(f)
        /\ UNCHANGED <<sessionVars, poolVars, heapVars, pageVars,
                     autoVars, apiVars>>
  \/ \E t \in {"sunset", "night"} : renderTimeOfDay(t)
        /\ UNCHANGED <<sessionVars, poolVars, heapVars, pageVars,
                     autoVars, apiVars>>
  \/ \E items \in MemoSizes : renderSize(items)
        /\ UNCHANGED <<sessionVars, poolVars, heapVars, pageVars,
                     autoVars, apiVars>>

\* ------------------------------------------------------------------------
\* DesignControls of src/app/page.tsx: the pool tab and its cost estimate
\* ------------------------------------------------------------------------
\* Number.prototype.toLocaleString() of a non-negative integer: the digits
\* in groups of three, here the sequence of the groups' values
RECURSIVE toLocaleString(_)
toLocaleString(n) ==
  IF n < 1000 THEN <<n>> ELSE toLocaleString(n \div 1000) \o <<n % 1000>>

\* (designData.pool?.size[0] || 16) * (designData.pool?.size[1] || 8) * 150
EstimatedCost(pool) ==
  (IF pool.size[1] # 0 THEN pool.size[1] ELSE 16)
    * (IF pool.size[2] # 0 THEN pool.size[2] ELSE 8) * 150

\* the cost field of the shapes of PoolShapeSelector
\* (src/components/EnhancedPool.js), shown on its buttons
shapes ==
  [rectangle |-> 0, lagoon |-> 5000, kidney |-> 3000, infinity |-> 15000,
   lShaped |-> 4000, lap |-> 2000]

poolShapes == {"rectangle", "kidney", "freeform", "L-shape"}
poolColors == {"#0066cc", "#004080"}
\* positions of the two range sliders (min 12 max 40, min 8 max 20)
PageLengths == {12, 16, 20, 28, 40}
PageWidths == {8, 12, 20}

PageInit ==
  /\ pagePool = [position |-> <<0, 0, 0>>, size |-> <<16, 8, 6>>,
                 shape |-> "rectangle", color |-> "#0066cc"]
  /\ pageEstimate = toLocaleString(EstimatedCost(pagePool))

\* handleDesignUpdate of page.tsx for category 'pool', then the render
onUpdate(property, value) ==
  /\ pagePool' =
       IF property = "length"
         THEN [pagePool EXCEPT !.size = <<value, pagePool.size[2], pagePool.size[3]>>]
       ELSE IF property = "width"
         THEN [pagePool EXCEPT !.size = <<pagePool.size[1], value, pagePool.size[3]>>]
       ELSE [pagePool EXCEPT ![property] = value]
  /\ pageEstimate' = toLocaleString(EstimatedCost(pagePool'))

PageNext ==
  \/ \E v \in PageLengths : onUpdate("length", v)
        /\ UNCHANGED <<sessionVars, poolVars, heapVars, memoVars,
                     autoVars, apiVars>>
  \/ \E v \in PageWidths : onUpdate("width", v)
        /\ UNCHANGED <<sessionVars, poolVars, heapVars, memoVars,
                     autoVars, apiVars>>
  \/ \E v \in poolShapes : onUpdate("shape", v)
        /\ UNCHANGED <<sessionVars, poolVars, heapVars, memoVars,
                     autoVars, apiVars>>
  \/ \E v \in poolColors : onUpdate("color", v)
        /\ UNCHANGED <<sessionVars, poolVars, heapVars, memoVars,
                     autoVars, apiVars>>

\* ------------------------------------------------------------------------
\* The autocomplete API route (src/pages/api/places-autocomplete.js)
\* ------------------------------------------------------------------------
\* `${n}` of a non-negative integer
RECURSIVE String(_)
String(n) ==
  IF n < 10 THEN SubSeq("0123456789", n + 1, n + 1)
  ELSE String(n \div 10) \o SubSeq("0123456789", (n % 10) + 1, (n % 10) + 1)

Undefined == [undefined |-> TRUE]

CorsHeaders ==
  {"Access-Control-Allow-Origin", "Access-Control-Allow-Methods",
   "Access-Control-Allow-Headers"}

\* the response object handed to the handler: nothing set, nothing sent
NoResponse ==
  [headers |-> {}, sent |-> 0, statusCode |-> 0, body |-> Undefined,
   headersSent |-> {}]

setHeader(r, name) == [r EXCEPT !.headers = @ \cup {name}]

\* res.status(code).json(body) and res.status(code).end(): one response goes
\* out with the headers set so far
send(r, code, body) ==
  [r EXCEPT !.sent = @ + 1, !.statusCode = code, !.body = body,
            !.headersSent = r.headers]

\* the validation with a minimum of two characters
inputRejected_minTwo(body) ==
  \/ ~body.hasInput
  \/ body.input = ""
  \/ Len(body.input) < 2

\* !input || input.length < 3, on the input field of the parsed JSON body
inputRejected(body) ==
  \/ ~body.hasInput
  \/ body.input = ""
  \/ Len(body.input) < 3

\* a catch clause that only logs
onCatch_logOnly(r) == r

\* the catch clause of the handler
onCatch(r) == send(r, 500, [error |-> "Internal server error"])

\* response.ok of fetch
ok(response) == response.status \in 200..299

\* lines 43-59: the reply built from a parsed upstream reply
upstreamReply(r, response) ==
  LET data == response.data IN
  IF ~ok(response)
    THEN send(r, response.status,
              [error |-> IF data.error_message # "" THEN data.error_message
                         ELSE "Google API error"])
  ELSE IF data.status # "OK" /\ data.status # "ZERO_RESULTS"
    THEN send(r, 400,
              [error |-> IF data.error_message # "" THEN data.error_message
                         ELSE "Google API status: " \o data.status])
  ELSE send(r, 200,
            [predictions |-> IF data.hasPredictions THEN data.predictions
                             ELSE <<>>,
             status |-> data.status])

\* what the upstream service can answer for an input
predictions(input, n) ==
  [i \in 1..n |-> [description |-> input \o ", result " \o String(i)]]

NoReply ==
  [rejected |-> TRUE, status |-> 0, parses |-> FALSE,
   data |-> [status |-> "", error_message |-> "", hasPredictions |-> FALSE,
             predictions |-> <<>>]]

UpstreamData(input) ==
  {[status |-> s, error_message |-> m, hasPredictions |-> n > 0,
    predictions |-> predictions(input, n)] :
     s \in {"OK", "ZERO_RESULTS", "REQUEST_DENIED"},
     m \in {"", "The provided API key is invalid."},
     n \in 0..MaxPredictions}

UpstreamReplies(input) ==
  {NoReply} \cup
  {[rejected |-> FALSE, status |-> st, parses |-> p, data |-> d] :
     st \in {200, 403, 503}, p \in BOOLEAN, d \in UpstreamData(input)}

Methods == {"OPTIONS", "POST", "GET", "DELETE"}
Bodies ==
  {[hasInput |-> FALSE, input |-> ""]} \cup
  {[hasInput |-> TRUE, input |-> s] : s \in {"", "ab", "abc", "1600 Penn"}}

ApiInit ==
  /\ req = [method |-> "", body |-> [hasInput |-> FALSE, input |-> ""]]
  /\ apiKey \in BOOLEAN
  /\ res = NoResponse
  /\ apiPc = "idle"
  /\ upstream = NoReply
  /\ upstreamCalls = 0

ApiIdle == ApiInit /\ apiKey = TRUE

\* lines 4-40: an invocation, up to its reply or to the await of the fetch
handler(method, body) ==
  /\ apiPc \in {"idle", "done"}
  /\ req' = [method |-> method, body |-> body]
  /\ upstream' = NoReply
  /\ LET r1 == setHeader(NoResponse, "Access-Control-Allow-Origin")
         r2 == setHeader(r1, "Access-Control-Allow-Methods")
         r3 == setHeader(r2, "Access-Control-Allow-Headers")
     IN
     IF method = "OPTIONS"
       THEN /\ res' = send(r3, 200, [ended |-> TRUE])
            /\ apiPc' = "done"
            /\ upstreamCalls' = 0
     ELSE IF method # "POST"
       THEN /\ res' = send(r3, 405, [error |-> "Method not allowed"])
            /\ apiPc' = "done"
            /\ upstreamCalls' = 0
     ELSE IF ~apiKey
       THEN /\ res' = send(r3, 500, [error |-> "Google Maps API key not configured"])
            /\ apiPc' = "done"
            /\ upstreamCalls' = 0
     ELSE IF inputRejected(body)
       THEN /\ res' = send(r3, 400, [error |-> "Input must be at least 3 characters"])
            /\ apiPc' = "done"
            /\ upstreamCalls' = 0
     ELSE /\ res' = r3
          /\ apiPc' = "fetch"
          /\ upstreamCalls' = 1
  /\ UNCHANGED apiKey

\* line 40: the fetch settles, rejected or with a response
fetchSettled(reply) ==
  /\ apiPc = "fetch"
  /\ upstream' = reply
  /\ IF reply.rejected
       THEN /\ res' = onCatch(res)
            /\ apiPc' = "done"
       ELSE /\ apiPc' = "json"
            /\ UNCHANGED res
  /\ UNCHANGED <<req, apiKey, upstreamCalls>>

\* lines 41-59: response.json() settles and the reply is sent
jsonSettled ==
  /\ apiPc = "json"
  /\ res' = IF upstream.parses THEN upstreamReply(res, upstream)
            ELSE onCatch(res)
  /\ apiPc' = "done"
  /\ UNCHANGED <<req, apiKey, upstream, upstreamCalls>>

ApiNext ==
  \/ \E m \in Methods, b \in Bodies : handler(m, b)
        /\ UNCHANGED <<sessionVars, poolVars, heapVars, memoVars, pageVars, autoVars>>
  \/ \E reply \in UpstreamReplies(req.body.input) : fetchSettled(reply)
        /\ UNCHANGED <<sessionVars, poolVars, heapVars, memoVars, pageVars, autoVars>>
  \/ jsonSettled
        /\ UNCHANGED <<sessionVars, poolVars, heapVars, memoVars, pageVars, autoVars>>

\* ------------------------------------------------------------------------
\* Address autocomplete of PhotoUpload (src/pages/index.js:937-1092)
\* ------------------------------------------------------------------------
commonStreets ==
  <<"Main", "Oak", "Park", "First", "Second", "Third", "Elm", "Maple",
    "Washington", "Lincoln">>
streetTypes ==
  <<"Street", "Avenue", "Road", "Drive", "Lane", "Circle", "Court", "Way">>
cities ==
  <<[name |-> "Atlanta", zip |-> "30309"],
    [name |-> "Decatur", zip |-> "30030"],
    [name |-> "Sandy Springs", zip |-> "30328"],
    [name |-> "Marietta", zip |-> "30060"],
    [name |-> "Roswell", zip |-> "30075"],
    [name |-> "Brookhaven", zip |-> "30319"],
    [name |-> "Dunwoody", zip |-> "30338"]>>

\* String.prototype.toLowerCase on the letters A-Z
lowerCase ==
  LET upper == "ABCDEFGHIJKLMNOPQRSTUVWXYZ"
      lower == "abcdefghijklmnopqrstuvwxyz"
  IN [c \in {SubSeq(upper, i, i) : i \in 1..Len(upper)} |->
        LET i == CHOOSE i \in 1..Len(upper) : SubSeq(upper, i, i) = c
        IN SubSeq(lower, i, i)]

toLowerCaseChar(c) == IF c \in DOMAIN lowerCase THEN lowerCase[c] ELSE c

RECURSIVE toLowerCase(_)
toLowerCase(s) ==
  IF s = "" THEN ""
  ELSE toLowerCaseChar(SubSeq(s, 1, 1)) \o toLowerCase(SubSeq(s, 2, Len(s)))

startsWith(s, prefix) ==
  Len(prefix) <= Len(s) /\ SubSeq(s, 1, Len(prefix)) = prefix

isDigit(c) == c \in {"0", "1", "2", "3", "4", "5", "6", "7", "8", "9"}

\* input.match(/^\d+/)[0]: the leading run of digits
RECURSIVE leadingDigits(_)
leadingDigits(s) ==
  IF s = "" \/ ~isDigit(SubSeq(s, 1, 1)) THEN ""
  ELSE SubSeq(s, 1, 1) \o leadingDigits(SubSeq(s, 2, Len(s)))

\* Array.prototype.slice(0, n)
slice(list, n) == SubSeq(list, 1, IF Len(list) < n THEN Len(list) ELSE n)

\* Math.floor(Math.random() * 9000) + 1000: the values drawn in the model
HouseNumbers == {1000, 9999}
MaxDraws == 6
Draws ==
  {d \in [1..MaxDraws -> HouseNumbers] :
     /\ d[1] = 1000
     /\ \A k \in 3..MaxDraws : d[k] = d[k - 2]}

\* the list when an input that matches no street gets no suggestion
fallbackSuggestions_noGeneric(input, rnd) ==
  IF leadingDigits(input) # ""
    THEN [index \in 1..5 |->
            leadingDigits(input) \o " " \o commonStreets[index] \o " "
              \o streetTypes[((index - 1) % Len(streetTypes)) + 1] \o ", "
              \o cities[index].name \o ", GA " \o cities[index].zip]
  ELSE IF Len(input) > 2
    THEN LET matchingStreets ==
               SelectSeq(commonStreets,
                         LAMBDA street :
                           startsWith(toLowerCase(street), toLowerCase(input)))
             streets == slice(matchingStreets, 3)
         IN IF Len(matchingStreets) > 0
              THEN slice([k \in 1..(2 * Len(streets)) |->
                            String(rnd[k]) \o " " \o streets[((k - 1) \div 2) + 1]
                              \o " Street, " \o cities[((k - 1) % 2) + 1].name
                              \o ", GA " \o cities[((k - 1) % 2) + 1].zip], 5)
              ELSE <<>>
  ELSE <<>>

\* provideFallbackSuggestions, lines 1035-1078: the list it builds
fallbackSuggestions(input, rnd) ==
  IF leadingDigits(input) # ""
    THEN [index \in 1..5 |->
            leadingDigits(input) \o " " \o commonStreets[index] \o " "
              \o streetTypes[((index - 1) % Len(streetTypes)) + 1] \o ", "
              \o cities[index].name \o ", GA " \o cities[index].zip]
  ELSE IF Len(input) > 2
    THEN LET matchingStreets ==
               SelectSeq(commonStreets,
                         LAMBDA street :
                           startsWith(toLowerCase(street), toLowerCase(input)))
             streets == slice(matchingStreets, 3)
         IN IF Len(matchingStreets) > 0
              THEN slice([k \in 1..(2 * Len(streets)) |->
                            String(rnd[k]) \o " " \o streets[((k - 1) \div 2) + 1]
                              \o " Street, " \o cities[((k - 1) % 2) + 1].name
                              \o ", GA " \o cities[((k - 1) % 2) + 1].zip], 5)
              ELSE << input \o " Street, Atlanta, GA 30309",
                      input \o " Avenue, Decatur, GA 30030",
                      input \o " Road, Sandy Springs, GA 30328",
                      input \o " Drive, Marietta, GA 30060",
                      input \o " Lane, Roswell, GA 30075" >>
  ELSE <<>>

\* provideFallbackSuggestions, lines 1080-1086: the state it sets
provideFallbackSuggestions(input, rnd) ==
  LET suggestions == fallbackSuggestions(input, rnd) IN
  IF Len(suggestions) > 0
    THEN /\ addressSuggestions' = suggestions
         /\ showSuggestions' = TRUE
    ELSE /\ showSuggestions' = FALSE
         /\ UNCHANGED addressSuggestions

\* what the fetch of /api/places-autocomplete can give the page for an input:
\* a rejection, or a response with a status and a body that parses or not
ClientReplies(input) ==
  {[rejected |-> TRUE, status |-> 0, parses |-> FALSE, hasPredictions |-> FALSE,
    predictions |-> <<>>]} \cup
  {[rejected |-> FALSE, status |-> st, parses |-> p, hasPredictions |-> FALSE,
    predictions |-> <<>>] : st \in {500}, p \in BOOLEAN} \cup
  {[rejected |-> FALSE, status |-> 200, parses |-> TRUE, hasPredictions |-> TRUE,
    predictions |-> predictions(input, n)] : n \in {0, 1, MaxPredictions}}

AddressInputs == {"oak", "pine", "pines", "main", "1600"}

AutoInit ==
  /\ addressSuggestions = <<>>
  /\ showSuggestions = FALSE
  /\ pending = {}
  /\ inputSeq = 0
  /\ autoOp = [name |-> "init", id |-> 0, outcome |-> "none"]

\* fetchAddressSuggestions up to its await: the request leaves
fetchAddressSuggestions(input) ==
  pending' = pending \cup {[id |-> inputSeq + 1, input |-> input]}

\* onChange of the address field: the field holds a new value
handleAddressInput(value) ==
  /\ inputSeq < MaxInputs
  /\ handleAddressChange(value)
  /\ inputSeq' = inputSeq + 1
  /\ IF Len(value) > 3
       THEN /\ fetchAddressSuggestions(value)
            /\ UNCHANGED <<addressSuggestions, showSuggestions>>
       ELSE /\ showSuggestions' = FALSE
            /\ addressSuggestions' = <<>>
            /\ UNCHANGED pending
  /\ autoOp' = [name |-> "handleAddressInput", id |-> inputSeq + 1,
                outcome |-> "none"]

\* fetchAddressSuggestions after its awaits: request r is answered
fetchAddressSuggestionsResumed(r, reply, rnd) ==
  /\ r \in pending
  /\ pending' = pending \ {r}
  /\ IF reply.rejected \/ ~reply.parses
       THEN provideFallbackSuggestions(r.input, rnd)
     ELSE IF ~ok(reply)
       THEN provideFallbackSuggestions(r.input, rnd)
     ELSE IF reply.hasPredictions /\ Len(reply.predictions) > 0
       THEN /\ addressSuggestions' =
                 slice([i \in 1..Len(reply.predictions) |->
                          reply.predictions[i].description], 5)
            /\ showSuggestions' = TRUE
     ELSE provideFallbackSuggestions(r.input, rnd)
  /\ autoOp' = [name |-> "response", id |-> r.id,
                outcome |-> IF reply.rejected \/ ~reply.parses THEN "exception"
                            ELSE IF ~ok(reply) THEN "not ok"
                            ELSE IF Len(reply.predictions) > 0 THEN "predictions"
                            ELSE "no predictions"]
  /\ UNCHANGED <<inputSeq, sessionVars>>

\* a click on a suggestion of the open dropdown
selectAddress(selectedAddress) ==
  /\ inputSeq < MaxInputs
  /\ showSuggestions /\ Len(addressSuggestions) > 0
  /\ handleAddressChange(selectedAddress)
  /\ showSuggestions' = FALSE
  /\ inputSeq' = inputSeq + 1
  /\ autoOp' = [name |-> "selectAddress", id |-> inputSeq + 1, outcome |-> "none"]
  /\ UNCHANGED <<addressSuggestions, pending>>

\* onFocus of the address field
onFocus ==
  /\ Len(address) > 3
  /\ showSuggestions' = TRUE
  /\ autoOp' = [name |-> "onFocus", id |-> inputSeq, outcome |-> "none"]
  /\ UNCHANGED <<addressSuggestions, pending, inputSeq, sessionVars>>

\* the timer started by onBlur fires
onBlur ==
  /\ showSuggestions' = FALSE
  /\ autoOp' = [name |-> "onBlur", id |-> inputSeq, outcome |-> "none"]
  /\ UNCHANGED <<addressSuggestions, pending, inputSeq, sessionVars>>

AutoNext ==
  \/ \E value \in AddressInputs \ {address} : handleAddressInput(value)
        /\ UNCHANGED <<poolVars, heapVars, memoVars, pageVars, apiVars>>
  \/ \E r \in pending : \E reply \in ClientReplies(r.input), rnd \in Draws :
        fetchAddressSuggestionsResumed(r, reply, rnd)
        /\ UNCHANGED <<poolVars, heapVars, memoVars, pageVars, apiVars>>
  \/ \E i \in {1, Len(addressSuggestions)} \cap DOMAIN addressSuggestions :
        selectAddress(addressSuggestions[i])
        /\ UNCHANGED <<poolVars, heapVars, memoVars, pageVars, apiVars>>
  \/ onFocus /\ UNCHANGED <<poolVars, heapVars, memoVars, pageVars, apiVars>>
  \/ onBlur /\ UNCHANGED <<poolVars, heapVars, memoVars, pageVars, apiVars>>

\* ------------------------------------------------------------------------
\* Specifications
\* ------------------------------------------------------------------------
PoolIdle ==
  /\ source = "EnhancedPool.js"
  /\ props = DefaultProps
  /\ hovered = FALSE
  /\ isDragging = FALSE
  /\ rendered = Render(source, props, hovered, isDragging)

Init == SessionInit /\ PoolIdle /\ HeapInit /\ MemoIdle /\ PageInit
        /\ AutoInit /\ ApiIdle
Next == SessionNext
Spec == Init /\ [][Next]_vars

\* the timers of handleProcessPhotos fire and its promise is settled: a
\* pending setTimeout callback or promise reaction is run by the event loop
ProcessStep ==
  (processStage \/ processFinish)
    /\ UNCHANGED <<poolVars, heapVars, memoVars, pageVars, autoVars, apiVars>>
SpecLive == Init /\ [][Next]_vars /\ WF_vars(ProcessStep)

\* the design step on its own: the session as handleProcessPhotos leaves it
ElementsInit ==
  /\ step = "design"
  /\ photos = MaxPhotos
  /\ address = "12 Oak St"
  /\ progress = stages[Len(stages)]
  /\ currentStage = Len(stages)
  /\ aiResults = analyzePhotosWithAddress
  /\ hardscapeElements = <<>>
  /\ landscapeElements = <<>>
  /\ timeOfDay = "sunset"
  /\ isProcessingPhotos = FALSE
  /\ designData = [InitialDesignData EXCEPT
                     !.backyard = [dimensions |-> analyzePhotosWithAddress.dimensions]]
  /\ pc = 0
  /\ lastOp = "handleProcessPhotos"
InitElements == ElementsInit /\ PoolIdle /\ HeapInit /\ MemoIdle /\ PageInit
                /\ AutoInit /\ ApiIdle
NextElements == ElementsNext
SpecElements == InitElements /\ [][NextElements]_vars

InitPool == SessionInit /\ PoolInit /\ HeapInit /\ MemoIdle /\ PageInit
            /\ AutoInit /\ ApiIdle
NextPool == PoolNext
SpecPool == InitPool /\ [][NextPool]_vars

InitHeap == SessionInit /\ PoolIdle /\ HeapInit /\ MemoIdle /\ PageInit
            /\ AutoInit /\ ApiIdle
NextHeap == HeapNext
SpecHeap == InitHeap /\ [][NextHeap]_vars

InitMemo == SessionInit /\ PoolIdle /\ HeapInit /\ MemoInit /\ PageInit
            /\ AutoInit /\ ApiIdle
NextMemo == MemoNext
SpecMemo == InitMemo /\ [][NextMemo]_vars

InitPage == SessionInit /\ PoolIdle /\ HeapInit /\ MemoIdle /\ PageInit
            /\ AutoInit /\ ApiIdle
NextPage == PageNext
SpecPage == InitPage /\ [][NextPage]_vars

InitAuto == SessionInit /\ PoolIdle /\ HeapInit /\ MemoIdle /\ PageInit
            /\ AutoInit /\ ApiIdle
NextAuto == AutoNext
SpecAuto == InitAuto /\ [][NextAuto]_vars

InitApi == SessionInit /\ PoolIdle /\ HeapInit /\ MemoIdle /\ PageInit
           /\ AutoInit /\ ApiInit
NextApi == ApiNext
SpecApi == InitApi /\ [][NextApi]_vars


\* ------------------------------------------------------------------------
\* Properties of the pool component (SpecPool)
\* ------------------------------------------------------------------------
Max(S) == CHOOSE x \in S : \A y \in S : y <= x
Min(S) == CHOOSE x \in S : \A y \in S : x <= y

\* the one error of a render that does not come from the looked-up keys of
\* shape or time of day: the spa of part_000 reading an undefined finish
SpaThrows ==
  /\ source = "part_000"
  /\ props.hasSpillover
  /\ spaFinish(props.finish) = [undefined |-> TRUE]

PoolCopies == {"EnhancedPool.js", "part_000", "places-autocomplete.js"}
Geometries(solids) == [i \in 1..Len(solids) |-> solids[i].geometry]

\* C1: for a shape identifier outside the six supported ones, each copy of
\* the geometry builder yields exactly what it yields for 'rectangle' with
\* the same size, the box length x depth x width, and the shape raises no
\* error.
C1_UnknownShapeIsRectangle ==
  (source \in PoolCopies /\ props.shape \notin SupportedShapes) =>
     /\ rendered.error # "none" => SpaThrows
     /\ rendered.error = "none" =>
          /\ rendered.solids =
               Render(source, [props EXCEPT !.shape = "rectangle"],
                      hovered, isDragging).solids
          /\ Geometries(rendered.solids) =
               << Box(100 * props.size[1], 100 * props.size[3], 100 * props.size[2]) >>

C1_Witness ==
  /\ source = "EnhancedPool.js"
  /\ props.shape = "unknownXYZ"
  /\ props.size = <<24, 12, 6>>
  /\ rendered.error = "none"
  /\ rendered.solids[1].geometry = Box(2400, 600, 1200)

\* C2: for a finish key outside the finish table, every finish-dependent
\* material (shell, steps, infinity edge, spillover spa) has the plaster
\* entry's parameters and no error is raised, whatever hasSpillover and
\* hasInfinityEdge are.
C2_UnknownFinishIsPlaster ==
  LET table == IF source = "index.js" THEN finishes ELSE POOL_FINISHES
  IN (props.finish \notin DOMAIN table /\ props.timeOfDay \in TimeKeys) =>
       /\ rendered.error = "none"
       /\ rendered.materials =
            Render(source, [props EXCEPT !.finish = "plaster"],
                   hovered, isDragging).materials

\* C3: for a time-of-day key outside the table, the water colour and the
\* scene lighting (ambient, sun, environment preset) are those of 'sunset'
\* and no error is raised.
C3_UnknownTimeIsSunset ==
  (props.timeOfDay \notin TimeKeys /\ ~SpaThrows) =>
     /\ rendered.error = "none"
     /\ rendered.water.color =
          (IF source = "index.js" THEN waterColors ELSE WATER_COLORS).sunset
     /\ source = "index.js" =>
          /\ rendered.lighting.ambient = lightingSettings.sunset.ambient
          /\ rendered.lighting.sun = lightingSettings.sunset.sun
          /\ rendered.lighting.environment = lightingSettings.sunset.environment

\* the points that bound an outline: start, end points and control points
OutlinePoints(g) ==
  {g.moveTo} \cup {g.segments[i].to : i \in 1..Len(g.segments)}
    \cup UNION {{g.segments[i].cp1, g.segments[i].cp2} :
                  i \in {j \in 1..Len(g.segments) : g.segments[j].type = "bezier"}}
Extent(points, axis) ==
  Max({pt[axis] : pt \in points}) - Min({pt[axis] : pt \in points})
\* footprint of a solid seen from above, <<along length, along width>>: the
\* x and z sides of a box; for an extruded outline the extent of its
\* bounding points in the outline's two axes (for curves an upper bound)
Footprint(g) ==
  IF g.kind = "box" THEN <<g.args[1], g.args[3]>>
  ELSE <<Extent(OutlinePoints(g), 1), Extent(OutlinePoints(g), 2)>>

\* C4: for every supported shape and positive size, the water plane of
\* getWaterDimensions is strictly smaller in both axes than the footprint of
\* the solid generatePoolGeometry builds for the same shape and size.
C4_WaterInsideSolid ==
  (source = "EnhancedPool.js" /\ props.shape \in SupportedShapes) =>
     LET foot == Footprint(rendered.solids[1].geometry)
     IN /\ rendered.water.args[1] < foot[1]
        /\ rendered.water.args[2] < foot[2]

\* C6: for shape 'lShaped' the solid rendered covers an L-shaped footprint
\* made of both sub-prisms, never a single rectangular box.
C6_LShapeIsNotOneBox ==
  (source \in PoolCopies /\ props.shape = "lShaped" /\ rendered.error = "none") =>
     ~(Len(rendered.solids) = 1 /\ rendered.solids[1].geometry.kind = "box")

\* footprint rectangle of a placed box: <<xMin, xMax, zMin, zMax>>
BoxRect(mesh) ==
  << mesh.position[1] - mesh.geometry.args[1] \div 2,
     mesh.position[1] + mesh.geometry.args[1] \div 2,
     mesh.position[3] - mesh.geometry.args[3] \div 2,
     mesh.position[3] + mesh.geometry.args[3] \div 2 >>
\* signed overlap of two intervals: > 0 overlap, 0 flush, < 0 gap
Overlap(a1, a2, b1, b2) == Min({a2, b2}) - Max({a1, b1})

\* C7: for 'lShaped' the two boxes PoolShape places share one contiguous
\* edge: along one axis they are flush (within 0.01 ft), along the other
\* they overlap; their footprints neither overlap in area nor leave a gap.
C7_LShapeBoxesFlush ==
  (source = "part_000" /\ props.shape = "lShaped" /\ rendered.error = "none") =>
     LET a == BoxRect(rendered.solids[1])
         b == BoxRect(rendered.solids[2])
         ox == Overlap(a[1], a[2], b[1], b[2])
         oz == Overlap(a[3], a[4], b[3], b[4])
     IN \/ (ox >= -1 /\ ox <= 1 /\ oz > 1)
        \/ (oz >= -1 /\ oz <= 1 /\ ox > 1)


\* ------------------------------------------------------------------------
\* Properties of the session (Spec, SpecHeap)
\* ------------------------------------------------------------------------
\* C8: a non-positive length or width never gets into designData: in every
\* reachable state the pool's length, width and depth are greater than 0.
C8_PoolSizePositive ==
  \A i \in 1..3 : designData.pool.size[i] > 0

\* xs is an initial part of ys
IsPrefix(xs, ys) == Len(xs) <= Len(ys) /\ SubSeq(ys, 1, Len(xs)) = xs
Types(list) == [i \in 1..Len(list) |-> list[i].type]

\* C9: no edit writes into an object that already exists: every object keeps
\* its content (the previous designData, its pool record, its size array,
\* the previous element records and lists), and whenever a state reference
\* changes it refers to an object built by that edit.
C9_NoInPlaceMutation ==
  [][ /\ Len(heap') >= Len(heap)
      /\ \A r \in 1..Len(heap) : heap'[r] = heap[r]
      /\ designDataRef' # designDataRef => designDataRef' > Len(heap)
      /\ hardscapeRef' # hardscapeRef => hardscapeRef' > Len(heap)
      /\ landscapeRef' # landscapeRef => landscapeRef' > Len(heap)
      /\ (heapOp' = "handleDesignUpdate"
            /\ heap'[heap'[designDataRef'].pool] # heap[heap[designDataRef].pool])
           => designDataRef' # designDataRef
    ]_vars

\* a pool edit and then a drag of the only element have run: the initial
\* pool record and size array and the element as it was before the drag are
\* still in the heap, unchanged, next to their replacements
C9_Witness ==
  /\ heapOp = "handleElementDrag"
  /\ heap[landscapeRef].items = <<>>
  /\ designDataRef # 1
  /\ heap[heap[designDataRef].pool] # heap[2]
  /\ heap[2] = HeapInitial[2]
  /\ heap[4] = HeapInitial[4]
  /\ \E r \in 1..Len(heap), q \in 1..Len(heap) :
        /\ heap[r].kind = "element" /\ heap[q].kind = "element"
        /\ heap[heap[r].position] # heap[heap[q].position]
        /\ heap[hardscapeRef].items = <<q>>

\* C10: only handleElementDrag changes the position of a placed element and
\* only reset removes one: every other handler leaves each list an initial
\* part of its new value (types and positions kept, nothing shortened); a
\* drag keeps lengths and types; an export other than reset keeps the lists.
C10_ElementsStable ==
  [][ /\ lastOp' \notin {"handleElementDrag", "handleExport(reset)"} =>
            /\ IsPrefix(hardscapeElements, hardscapeElements')
            /\ IsPrefix(landscapeElements, landscapeElements')
      /\ lastOp' = "handleElementDrag" =>
            /\ Types(hardscapeElements') = Types(hardscapeElements)
            /\ Types(landscapeElements') = Types(landscapeElements)
    ]_vars

\* an element placed at x = 1 has stayed there through a second add, a
\* design update, a time-of-day change, and the design update ran last
C10_Witness ==
  /\ lastOp = "handleDesignUpdate"
  /\ timeOfDay = "noon"
  /\ designData.pool.size[1] = 20
  /\ Len(hardscapeElements) = 1 /\ hardscapeElements[1].position = <<1, 0, 0>>
  /\ Len(landscapeElements) = 1


\* ------------------------------------------------------------------------
\* The scene of the session (Scene of src/pages/index.js applied to the
\* state of BackyardAI)
\* ------------------------------------------------------------------------
\* the props Scene hands to Pool
PoolProps(dd, t) ==
  [shape |-> dd.pool.shape, size |-> dd.pool.size, finish |-> dd.pool.finish,
   timeOfDay |-> t, hasInfinityEdge |-> FALSE, hasSpillover |-> FALSE]

\* <fog attach="fog" .../>: a property of the scene, present in the evening
\* and at night
SceneFog(t) ==
  CASE t = "evening" -> <<"#191970", 50, 200>>
    [] t = "night" -> <<"#000080", 30, 150>>
    [] OTHER -> <<>>

\* the scene with the water plane left out at night
SceneObjects_noWaterAtNight(dd, hardscape, landscape, t) ==
  LET pool == Scene(PoolProps(dd, t), FALSE, FALSE)
  IN << [name |-> "pool shell", geometry |-> pool.solids[1].geometry,
         position |-> pool.solids[1].position, color |-> pool.materials.shell.color] >>
     \o (IF t = "night" THEN <<>>
         ELSE << [name |-> "pool water",
                  geometry |-> [kind |-> "plane", args |-> pool.water.args],
                  position |-> <<0, 15, 0>>, color |-> pool.water.color] >>)
     \o [i \in 1..Len(hardscape) |->
           [name |-> "hardscape", geometry |-> [kind |-> hardscape[i].type],
            position |-> hardscape[i].position, color |-> "material"]]
     \o [i \in 1..Len(landscape) |->
           [name |-> "landscape", geometry |-> [kind |-> landscape[i].type],
            position |-> landscape[i].position, color |-> "seasonal"]]

\* the objects Scene renders that depend on the session state, lights left
\* out: the pool shell and water plane of Pool, one HardscapeElement and one
\* LandscapeElement per list entry
SceneObjects(dd, hardscape, landscape, t) ==
  LET pool == Scene(PoolProps(dd, t), FALSE, FALSE)
  IN << [name |-> "pool shell", geometry |-> pool.solids[1].geometry,
         position |-> pool.solids[1].position, color |-> pool.materials.shell.color],
        [name |-> "pool water",
         geometry |-> [kind |-> "plane", args |-> pool.water.args],
         position |-> <<0, 15, 0>>, color |-> pool.water.color] >>
     \o [i \in 1..Len(hardscape) |->
           [name |-> "hardscape", geometry |-> [kind |-> hardscape[i].type],
            position |-> hardscape[i].position, color |-> "material"]]
     \o [i \in 1..Len(landscape) |->
           [name |-> "landscape", geometry |-> [kind |-> landscape[i].type],
            position |-> landscape[i].position, color |-> "seasonal"]]

\* which objects there are, with what geometry, and where
SceneGeometry(objects) ==
  [i \in 1..Len(objects) |->
     [name |-> objects[i].name, geometry |-> objects[i].geometry,
      position |-> objects[i].position]]

C12_GeometryIsCacheOfShapeAndSize ==
  [][ /\ poolGeometry'.value =
           generatePoolGeometry(memoProps'.shape, memoProps'.size.items)
      /\ (memoProps'.shape # memoProps.shape
            \/ memoProps'.size.items # memoProps.size.items)
           => poolGeometry'.id # poolGeometry.id
      /\ memoOp' \in {"finish", "timeOfDay"} => poolGeometry'.id = poolGeometry.id
    ]_vars


\* ------------------------------------------------------------------------
\* Outlines as ExtrudeGeometry meshes them (SpecPool)
\* ------------------------------------------------------------------------
\* ExtrudeGeometry is given no curveSegments: each curve of the outline is
\* replaced by the points at t = k / curveSegments, k = 0..curveSegments
curveSegments == 12
\* coordinates of sampled points are in units of 1 / SampleScale hundredths
SampleScale == curveSegments * curveSegments * curveSegments

\* the point a segment starts from: where the previous one ended
StartOf(g, i) == IF i = 1 THEN g.moveTo ELSE g.segments[i - 1].to

\* coordinate of the cubic Bezier curve p0, cp1, cp2, to at t = k / curveSegments
BezierAt(p0, seg, k, axis) ==
  LET u == curveSegments - k
  IN u * u * u * p0[axis] + 3 * u * u * k * seg.cp1[axis]
       + 3 * u * k * k * seg.cp2[axis] + k * k * k * seg.to[axis]

\* the vertices of the outline polygon
OutlineVertices(g) ==
  {<<SampleScale * g.moveTo[1], SampleScale * g.moveTo[2]>>}
    \cup UNION { IF g.segments[i].type = "bezier"
                   THEN {<<BezierAt(StartOf(g, i), g.segments[i], k, 1),
                           BezierAt(StartOf(g, i), g.segments[i], k, 2)>> :
                           k \in 0..curveSegments}
                   ELSE {<<SampleScale * g.segments[i].to[1],
                           SampleScale * g.segments[i].to[2]>>} :
                 i \in 1..Len(g.segments) }

\* C13: the lagoon outline of generatePoolGeometry is non-empty and its
\* bounding footprint is at most 1.2 x length along the length axis and at
\* most 1.2 x width along the width axis (28.8 by 14.4 for 24 by 12).
C13_LagoonWithinScale ==
  (source = "EnhancedPool.js" /\ props.shape = "lagoon") =>
     LET g == rendered.solids[1].geometry
         V == OutlineVertices(g)
     IN /\ g.kind = "extrude" /\ Len(g.segments) > 0
        /\ Extent(V, 1) <= SampleScale * 120 * props.size[1]
        /\ Extent(V, 2) <= SampleScale * 120 * props.size[2]


\* the shapes each copy of generatePoolGeometry builds from an outline
OutlineShapes(src) ==
  CASE src = "EnhancedPool.js" -> {"lagoon", "kidney", "lShaped"}
    [] src = "places-autocomplete.js" -> {"lagoon", "kidney"}
    [] OTHER -> {}

\* the path returns to the point given to moveTo.  (A Shape keeps a current
\* point: every segment starts where the previous one ended, StartOf.)
Closed(g) ==
  /\ Len(g.segments) > 0
  /\ g.segments[Len(g.segments)].to = g.moveTo
  /\ \A i \in 1..Len(g.segments) :
       g.segments[i].type = "bezier" =>
         /\ BezierAt(StartOf(g, i), g.segments[i], 0, 1) = SampleScale * StartOf(g, i)[1]
         /\ BezierAt(StartOf(g, i), g.segments[i], 0, 2) = SampleScale * StartOf(g, i)[2]
         /\ BezierAt(StartOf(g, i), g.segments[i], curveSegments, 1)
              = SampleScale * g.segments[i].to[1]
         /\ BezierAt(StartOf(g, i), g.segments[i], curveSegments, 2)
              = SampleScale * g.segments[i].to[2]

\* C14: for lagoon, kidney and lShaped, wherever the builder makes the solid
\* from an outline, the outline is closed: its last segment ends at the
\* point given to moveTo, for every size.
C14_OutlineClosed ==
  (rendered.error = "none" /\ props.shape \in OutlineShapes(source)) =>
     /\ rendered.solids[1].geometry.kind = "extrude"
     /\ Closed(rendered.solids[1].geometry)

\* the kidney of the copy in places-autocomplete.js for 24 by 12: it leaves
\* (2.4, 1.8) and comes back to it after three curves
C14_Witness ==
  /\ source = "places-autocomplete.js" /\ props.shape = "kidney"
  /\ props.size = <<24, 12, 6>>
  /\ rendered.solids[1].geometry.moveTo = <<240, 180>>
  /\ Len(rendered.solids[1].geometry.segments) = 3
  /\ rendered.solids[1].geometry.segments[3].to = <<240, 180>>


\* every point of outline g2 is the matching point of g1 with its first
\* coordinate multiplied by kx and its second by ky
ScaledOutline(g1, g2, kx, ky) ==
  /\ Len(g2.segments) = Len(g1.segments)
  /\ g2.moveTo = <<kx * g1.moveTo[1], ky * g1.moveTo[2]>>
  /\ \A i \in 1..Len(g1.segments), f \in {"cp1", "cp2", "to"} :
       g2.segments[i][f] = <<kx * g1.segments[i][f][1], ky * g1.segments[i][f][2]>>

\* C15: for lagoon and kidney, multiplying length by k with the width fixed
\* multiplies the length-axis coordinate of every control point by k and
\* leaves the width-axis coordinates as they are; symmetrically for width.
C15_SilhouetteScales ==
  (source = "EnhancedPool.js" /\ props.shape \in {"lagoon", "kidney"}) =>
     \A k \in 2..3 :
        LET length == props.size[1]
            width  == props.size[2]
            depth  == props.size[3]
            g == rendered.solids[1].geometry
        IN /\ ScaledOutline(g, generatePoolGeometry(props.shape,
                                  <<k * length, width, depth>>), k, 1)
           /\ ScaledOutline(g, generatePoolGeometry(props.shape,
                                  <<length, k * width, depth>>), 1, k)


\* C16: a lagoon's water plane is 1.1 x length by 1.1 x width, length and
\* width being the components of size the geometry builder takes as length
\* and width ([length, width, depth] = size); for length 24, width 12,
\* depth 6 it is [26.4, 13.2].
C16_LagoonWaterFromBuilderSize ==
  (source = "EnhancedPool.js" /\ props.shape = "lagoon") =>
     LET length == props.size[1]
         width  == props.size[2]
     IN /\ rendered.water.args = <<110 * length, 110 * width>>
        /\ (length = 24 /\ width = 12) => rendered.water.args = <<2640, 1320>>


\* C17: the water plane is 0.9 x length by 0.9 x width for lagoon, 0.8 by
\* 0.8 for kidney, 1.6 x length by 0.5 x width for lap, and for the shapes
\* with no entry of their own (rectangle, infinity, unknown) length and
\* width less one common margin; in the copies that size the water by
\* shape (EnhancedPool.js, part_000).
C17_WaterFractionTable ==
  (source \in {"EnhancedPool.js", "part_000"} /\ rendered.error = "none") =>
     LET length == props.size[1]
         \* the component each copy's water code reads as the width
         width  == IF source = "EnhancedPool.js" THEN props.size[3]
                   ELSE props.size[2]
         water  == rendered.water.args
     IN /\ props.shape = "lagoon" => water = <<90 * length, 90 * width>>
        /\ props.shape = "kidney" => water = <<80 * length, 80 * width>>
        /\ props.shape = "lap" => water = <<160 * length, 50 * width>>
        /\ props.shape \in {"rectangle", "infinity", "unknownXYZ"} =>
             \E margin \in {80, 100} :
                water = <<100 * length - margin, 100 * width - margin>>


\* C18: a rectangle of (length, width, depth) is the box [length, depth,
\* width]; with finish pebbleTec and the pool neither hovered nor dragged,
\* the shell material has roughness 0.8, metalness 0.0 and pebbleTec's shell
\* colour.  For 16, 8, 6 the box is [16, 6, 8].
C18_RectanglePebbleTec ==
  (source = "EnhancedPool.js" /\ props.shape = "rectangle") =>
     /\ Geometries(rendered.solids) =
          << Box(100 * props.size[1], 100 * props.size[3], 100 * props.size[2]) >>
     /\ (props.finish = "pebbleTec" /\ ~hovered /\ ~isDragging) =>
          rendered.materials.shell =
            [color |-> "#4a7c59", roughness |-> 8, metalness |-> 0]

C18_Witness ==
  /\ source = "EnhancedPool.js" /\ props.shape = "rectangle"
  /\ props.size = <<16, 8, 6>> /\ props.finish = "pebbleTec"
  /\ ~hovered /\ ~isDragging
  /\ rendered.solids[1].geometry = Box(1600, 600, 800)
  /\ rendered.materials.shell.roughness = 8


\* ------------------------------------------------------------------------
\* Photo processing (Spec)
\* ------------------------------------------------------------------------
\* C19: progress only ever moves from one value of the script to the next
\* one in its listed order (from 0 to the first), so it never decreases;
\* step becomes 'design' only from a state where progress is 100, and
\* whenever step is 'design' progress is 100.
C19_ProgressFollowsStages ==
  /\ [](step = "design" => progress = 100)
  /\ [][ /\ progress' >= progress
         /\ progress' # progress =>
              \E k \in 1..Len(stages) :
                 /\ progress' = stages[k]
                 /\ progress = (IF k = 1 THEN 0 ELSE stages[k - 1])
         /\ (step' = "design" /\ step # "design") => progress = 100
       ]_vars

\* the last stage has been shown and the handler awaits the analysis: 100
\* is reached and the design step is not open yet
C19_Witness ==
  /\ step = "processing" /\ isProcessingPhotos
  /\ progress = 100 /\ currentStage = Len(stages)
  /\ pc = Len(stages) + 1


\* ------------------------------------------------------------------------
\* The cost estimate (SpecPage)
\* ------------------------------------------------------------------------
\* C20: the displayed estimate is length x width x the unit rate plus the
\* surcharge of the pool's shape, for every length, width and shape the
\* controls can select (for the shapes that have a surcharge entry).
C20_CostIsAreaRatePlusSurcharge ==
  pagePool.shape \in DOMAIN shapes =>
     pageEstimate = toLocaleString(pagePool.size[1] * pagePool.size[2] * 150
                                     + shapes[pagePool.shape])

\* ------------------------------------------------------------------------
\* Address autocomplete: requests and their answers
\* ------------------------------------------------------------------------
\* Claim C21: the answer to an autocomplete request that is no longer the
\* most recent input (a later keystroke, a shortening to 3 characters or
\* fewer, or a selection came after it) leaves the suggestion list and its
\* visibility as they are.
C21_StaleAnswerIgnored ==
  [][(autoOp'.name = "response" /\ autoOp'.id # inputSeq)
       => UNCHANGED <<addressSuggestions, showSuggestions>>]_vars

\* ------------------------------------------------------------------------
\* The steps of the session (Spec, SpecLive)
\* ------------------------------------------------------------------------
\* C22: once handleProcessPhotos has started, the design step is reached
\* with the analysis results stored and a backyard length and width: the
\* analysis, whose calls throw, hands back the defaults and never rejects.
C22_ProcessingReachesDesign ==
  (step = "processing") ~>
     /\ step = "design"
     /\ aiResults # Null
     /\ {"length", "width"} \subseteq DOMAIN designData.backyard.dimensions
     /\ designData.backyard.dimensions.length > 0
     /\ designData.backyard.dimensions.width > 0

\* the run has just ended with the defaults of the failed analysis
C22_Witness ==
  /\ step = "design" /\ lastOp = "handleProcessPhotos"
  /\ aiResults = getContractorDefaults /\ aiResults.fallback
  /\ designData.backyard.dimensions = getContractorDefaults.dimensions

\* C23: step moves upload -> processing -> design and never back; a run of
\* handleProcessPhotos starts only on the upload step with a photo and a
\* non-blank address, and only when no run has started before; and
\* isProcessingPhotos is true only while step is 'processing'.
C23_StepOnlyForward ==
  /\ [][ /\ step' # step =>
              \/ step = "upload" /\ step' = "processing"
              \/ step = "processing" /\ step' = "design"
         /\ (pc = 0 /\ pc' # 0) =>
              /\ step = "upload" /\ photos > 0 /\ trim(address) # ""
              /\ aiResults = Null /\ progress = 0
       ]_vars
  /\ [](isProcessingPhotos => step = "processing")
  /\ [](pc # 0 <=> step = "processing")

\* the design step is open after the one run, with the photo and the
\* address that allowed it
C23_Witness ==
  /\ step = "design" /\ ~isProcessingPhotos /\ pc = 0
  /\ photos > 0 /\ trim(address) # ""
  /\ aiResults # Null

C25_ReplyFollowsUpstream ==
  (apiPc = "done" /\ upstreamCalls = 1 /\ ~upstream.rejected) =>
     /\ ~ok(upstream) => res.statusCode = upstream.status
     /\ (ok(upstream) /\ upstream.parses
           /\ upstream.data.status \notin {"OK", "ZERO_RESULTS"}) =>
          res.statusCode = 400
     /\ (ok(upstream) /\ upstream.parses
           /\ upstream.data.status \in {"OK", "ZERO_RESULTS"}) =>
          /\ res.statusCode = 200
          /\ res.body = [predictions |-> IF upstream.data.hasPredictions
                                           THEN upstream.data.predictions
                                           ELSE <<>>,
                         status |-> upstream.data.status]

\* C26: an invocation sends exactly one response, on every path, the
\* exceptions of the fetch and of the parsing included (they give 500), and
\* the three CORS headers are set when the response goes out.
C26_ExactlyOneResponse ==
  /\ res.sent <= 1
  /\ apiPc \in {"fetch", "json"} => res.sent = 0
  /\ apiPc = "done" => res.sent = 1
  /\ res.sent = 1 => res.headersSent = CorsHeaders
  /\ (apiPc = "done" /\ upstreamCalls = 1
        /\ (upstream.rejected \/ ~upstream.parses)) => res.statusCode = 500

\* the body of an upstream reply did not parse: the one response is a 500
C26_Witness ==
  /\ apiPc = "done" /\ upstreamCalls = 1
  /\ ~upstream.rejected /\ ~upstream.parses
  /\ res.sent = 1 /\ res.statusCode = 500
  /\ res.headersSent = CorsHeaders

\* ------------------------------------------------------------------------
\* Frames of the design handlers (Spec)
\* ------------------------------------------------------------------------
\* C27: handleExport('reset') empties both element lists, sets the time of
\* day to 'sunset' and puts designData back to the initial pool and backyard
\* values, and leaves step, photos, address, progress and aiResults alone;
\* handleExport('quote') and handleExport('3d') change no state.
C27_ExportFrame ==
  [][ /\ handleExport("reset") =>
           /\ hardscapeElements' = <<>> /\ landscapeElements' = <<>>
           /\ timeOfDay' = "sunset"
           /\ designData'.pool =
                [position |-> <<0, 0, 0>>, size |-> <<24, 12, 6>>,
                 shape |-> "rectangle", color |-> "#0066cc",
                 finish |-> "plaster"]
           /\ designData'.backyard = [dimensions |-> [length |-> 50, width |-> 35]]
           /\ UNCHANGED <<step, photos, address, progress, aiResults>>
      /\ \A t \in {"quote", "3d"} :
           handleExport(t) =>
             UNCHANGED <<step, photos, address, progress, currentStage,
                         aiResults, hardscapeElements, landscapeElements,
                         timeOfDay, isProcessingPhotos, designData, pc>>
    ]_vars

\* a reset has just run in the design step of a session with results, and
\* everything it sets has its initial value
C27_Witness ==
  /\ lastOp = "handleExport(reset)"
  /\ step = "design" /\ aiResults # Null /\ progress = 100
  /\ hardscapeElements = <<>> /\ landscapeElements = <<>>
  /\ timeOfDay = "sunset" /\ designData = InitialDesignData

\* C28: handleElementDrag(category, index, p) gives the element at that
\* index of that category the position p and changes nothing else: length,
\* order, types and every other element (one of the same type included) and
\* the other list stay; an index outside the list or an unknown category
\* changes nothing.
C28_DragMovesOneElement ==
  [][ \A c \in Categories, i \in 0..MaxElements, p \in Positions :
        (lastOp' = "handleElementDrag" /\ handleElementDrag(c, i, p)) =>
          LET known == c \in {"hardscape", "landscape"}
              list == IF c = "hardscape" THEN hardscapeElements
                      ELSE landscapeElements
              after == IF c = "hardscape" THEN hardscapeElements'
                       ELSE landscapeElements'
          IN /\ ~known => UNCHANGED <<hardscapeElements, landscapeElements>>
             /\ c = "hardscape" => UNCHANGED landscapeElements
             /\ c = "landscape" => UNCHANGED hardscapeElements
             /\ known =>
                  /\ Len(after) = Len(list)
                  /\ Types(after) = Types(list)
                  /\ \A j \in 1..Len(list) :
                       IF j = i + 1
                         THEN /\ after[j].position = p
                              /\ after[j].type = list[j].type
                              /\ after[j].selected = list[j].selected
                         ELSE after[j] = list[j]
                  /\ i >= Len(list) => after = list
             /\ UNCHANGED <<step, photos, address, progress, currentStage,
                            aiResults, timeOfDay, isProcessingPhotos,
                            designData, pc>>
    ]_vars

\* two elements of one type on a list, and a drag has left them at
\* different positions
C28_Witness ==
  /\ lastOp = "handleElementDrag"
  /\ Len(hardscapeElements) = 2
  /\ hardscapeElements[1].type = hardscapeElements[2].type
  /\ hardscapeElements[1].position # hardscapeElements[2].position

\* C29: handleAddElement(category, type) appends one element of that type,
\* unselected and at height 0, to the end of the list of that category, and
\* leaves the other list and the elements already there as they are; with a
\* category other than 'hardscape' and 'landscape' nothing changes.
C29_AddAppendsOneElement ==
  [][ \A c \in Categories, t \in HardscapeTypes \cup LandscapeTypes,
         p \in Positions :
        (lastOp' = "handleAddElement" /\ handleAddElement(c, t, p)) =>
          LET known == c \in {"hardscape", "landscape"}
              list == IF c = "hardscape" THEN hardscapeElements
                      ELSE landscapeElements
              after == IF c = "hardscape" THEN hardscapeElements'
                       ELSE landscapeElements'
          IN /\ ~known => UNCHANGED <<hardscapeElements, landscapeElements>>
             /\ c = "hardscape" => UNCHANGED landscapeElements
             /\ c = "landscape" => UNCHANGED hardscapeElements
             /\ known =>
                  /\ Len(after) = Len(list) + 1
                  /\ SubSeq(after, 1, Len(list)) = list
                  /\ after[Len(after)].type = t
                  /\ after[Len(after)].selected = FALSE
                  /\ after[Len(after)].position[2] = 0
             /\ UNCHANGED <<step, photos, address, progress, currentStage,
                            aiResults, timeOfDay, isProcessingPhotos,
                            designData, pc>>
    ]_vars

\* a tree has just been appended to the landscape list while the hardscape
\* list holds an element
C29_Witness ==
  /\ lastOp = "handleAddElement"
  /\ Len(hardscapeElements) = 1 /\ Len(landscapeElements) = 1
  /\ landscapeElements[1].type = "tree"
  /\ ~landscapeElements[1].selected
  /\ landscapeElements[1].position[2] = 0

\* ------------------------------------------------------------------------
\* Address autocomplete: the fallback and the threshold (SpecAuto)
\* ------------------------------------------------------------------------
\* C30: for an input longer than 3 characters, a request that fails (a
\* response that is not ok, or an exception) or brings no predictions ends
\* with a non-empty list of at most 5 fallback suggestions on display; an
\* input of 3 characters or fewer empties and hides the list and sends no
\* request, so every request sent has the length the server asks for.
C30_FallbackAndThreshold ==
  /\ [][ /\ (autoOp'.name = "response"
               /\ autoOp'.outcome \in {"exception", "not ok", "no predictions"}) =>
              /\ showSuggestions'
              /\ Len(addressSuggestions') \in 1..5
         /\ (autoOp'.name = "handleAddressInput" /\ Len(address') <= 3) =>
              /\ addressSuggestions' = <<>>
              /\ ~showSuggestions'
              /\ pending' = pending
         /\ (autoOp'.name = "handleAddressInput" /\ Len(address') > 3) =>
              pending' = pending \cup {[id |-> inputSeq', input |-> address']}
       ]_vars
  /\ [](\A r \in pending :
          /\ Len(r.input) >= 3
          /\ ~inputRejected([hasInput |-> TRUE, input |-> r.input]))

\* the request for 'pine' has failed: its five fallback suggestions are shown
C30_Witness ==
  /\ autoOp.name = "response" /\ autoOp.outcome \in {"exception", "not ok"}
  /\ showSuggestions
  /\ Len(addressSuggestions) = 5
  /\ addressSuggestions[1] = "pine Street, Atlanta, GA 30309"

====
